---------------------------- MODULE Spec2Model ----------------------------
(***************************************************************************)
(* State-machine model of the AI reasoning pipeline of the Power BI chat   *)
(* gateway: the context builder (modules/ai/context_builder.py), the       *)
(* language-model client (modules/ai/azure_openai_client.py), the catalog  *)
(* client (modules/powerbi/client.py) and the reasoning engine             *)
(* (modules/ai/reasoning_engine.py).                                       *)
(*                                                                         *)
(* Conventions.  Python strings are TLA+ strings; Len, SubSeq and \o act   *)
(* on them character by character.  Python floats that the code only adds, *)
(* compares and caps are kept as exact integers: relevance and complexity  *)
(* scores in tenths (0.3 is 3), confidence in thousandths (0.85 is 850).   *)
(* Python None is the value None.                                          *)
(***************************************************************************)
EXTENDS Integers, Sequences, FiniteSets, TLC

VARIABLES
    \* ---- the environment
    now,              \* the wall clock, in seconds
    service,          \* what the remote BI service holds: workspaces and their datasets
    token_available,  \* whether the token provider currently yields a bearer token
    \* ---- PowerBIClient
    workspace_cache,  \* _workspace_cache["workspaces"]
    dataset_cache,    \* _dataset_cache["datasets_<workspace id>"], per workspace id
    heap,             \* the DatasetInfo objects ever created; a reference is an index
    \* ---- PowerBIContextBuilder
    query_history,    \* _query_history
    \* ---- PowerBIReasoningEngine
    stats,            \* _analysis_count, _success_count, _total_execution_time
    \* ---- the request being served (one coroutine)
    pc,               \* where the coroutine is suspended: the HTTP call in flight
    caller,           \* the entry point called: "analyze_request" or "build_context"
    user_query,       \* its argument
    start_time,       \* analyze_request's start_time
    context,          \* the PowerBIContext being built, then used
    loc,              \* loop positions and locals that live across a suspension
    thinking,         \* the ThinkingProcess
    results,          \* _execute_analysis_plan's accumulator
    insights,         \* what _generate_insights returned
    result,           \* what the entry point returned
    \* ---- history variables
    stage_error,      \* the exception a pipeline stage raised in this request, if any
    wire,             \* the HTTP requests this request has sent, in order
    calls,            \* the questions passed to the entry points so far, in order
    nticks,           \* clock steps taken so far
    \* ---- direct calls of pure methods
    call,             \* the direct call of one pure method: [fn, arguments...]
    ret               \* what that call returned: [set |-> FALSE] before it returns

vars == <<now, service, token_available, workspace_cache, dataset_cache, heap,
          query_history, stats, pc, caller, user_query, start_time, context, loc,
          thinking, results, insights, result, stage_error, wire, calls, nticks,
          call, ret>>

None == "None"

Min(a, b) == IF a <= b THEN a ELSE b

(***************************************************************************)
(* Python string primitives.                                               *)
(***************************************************************************)
UpperCase == "ABCDEFGHIJKLMNOPQRSTUVWXYZ"
LowerCase == "abcdefghijklmnopqrstuvwxyz"
Whitespace == {" ", "\t", "\n"}

CharAt(s, i) == SubSeq(s, i, i)

\* str.lower() on one character
LowerChar(c) ==
    IF \E i \in 1..Len(UpperCase) : CharAt(UpperCase, i) = c
    THEN CharAt(LowerCase, CHOOSE i \in 1..Len(UpperCase) : CharAt(UpperCase, i) = c)
    ELSE c

RECURSIVE LowerFrom(_, _)
LowerFrom(s, i) ==
    IF i > Len(s) THEN "" ELSE LowerChar(CharAt(s, i)) \o LowerFrom(s, i + 1)

\* str.lower()
Lower(s) == LowerFrom(s, 1)

\* the Python test `k in s` on two strings
IsSubstring(k, s) ==
    \E i \in 0..(Len(s) - Len(k)) : SubSeq(s, i + 1, i + Len(k)) = k

\* any(word in s for word in words)
AnyIn(words, s) == \E i \in 1..Len(words) : IsSubstring(words[i], s)

RECURSIVE SplitFrom(_, _, _, _)
SplitFrom(s, i, cur, acc) ==
    IF i > Len(s)
    THEN IF cur = "" THEN acc ELSE Append(acc, cur)
    ELSE IF CharAt(s, i) \in Whitespace
         THEN SplitFrom(s, i + 1, "", IF cur = "" THEN acc ELSE Append(acc, cur))
         ELSE SplitFrom(s, i + 1, cur \o CharAt(s, i), acc)

\* str.split(): the maximal runs of non-whitespace characters, in order
Split(s) == SplitFrom(s, 1, "", <<>>)

(***************************************************************************)
(* Intent classification (PowerBIContextBuilder._classify_intent).         *)
(***************************************************************************)
KwSales       == <<"sales", "revenue", "profit", "income">>
KwPerformance == <<"performance", "kpi", "metric", "target">>
KwTrend       == <<"trend", "growth", "change", "over time", "quarterly", "monthly">>
KwComparison  == <<"compare", "vs", "versus", "difference", "better", "worse">>
KwRanking     == <<"top", "bottom", "best", "worst", "highest", "lowest">>
KwCustomer    == <<"customer", "client", "account", "segment">>
KwProduct     == <<"product", "item", "category", "inventory">>
KwGeographic  == <<"region", "country", "state", "city", "location", "geographic">>
KwFinancial   == <<"budget", "cost", "expense", "margin", "roi", "financial">>

Intents ==
    { "sales_analysis", "performance_analysis", "trend_analysis",
      "comparison_analysis", "ranking_analysis", "customer_analysis",
      "product_analysis", "geographic_analysis", "financial_analysis",
      "general_analysis" }

\* the classifier with the trend bucket tested before the sales bucket
classify_intent_trend_first(user_q) ==
    LET query_lower == Lower(user_q) IN
    IF AnyIn(KwTrend, query_lower) THEN "trend_analysis"
    ELSE IF AnyIn(KwSales, query_lower) THEN "sales_analysis"
    ELSE IF AnyIn(KwPerformance, query_lower) THEN "performance_analysis"
    ELSE IF AnyIn(KwComparison, query_lower) THEN "comparison_analysis"
    ELSE IF AnyIn(KwRanking, query_lower) THEN "ranking_analysis"
    ELSE IF AnyIn(KwCustomer, query_lower) THEN "customer_analysis"
    ELSE IF AnyIn(KwProduct, query_lower) THEN "product_analysis"
    ELSE IF AnyIn(KwGeographic, query_lower) THEN "geographic_analysis"
    ELSE IF AnyIn(KwFinancial, query_lower) THEN "financial_analysis"
    ELSE "general_analysis"

classify_intent(user_q) ==
    LET query_lower == Lower(user_q) IN
    IF AnyIn(KwSales, query_lower) THEN "sales_analysis"
    ELSE IF AnyIn(KwPerformance, query_lower) THEN "performance_analysis"
    ELSE IF AnyIn(KwTrend, query_lower) THEN "trend_analysis"
    ELSE IF AnyIn(KwComparison, query_lower) THEN "comparison_analysis"
    ELSE IF AnyIn(KwRanking, query_lower) THEN "ranking_analysis"
    ELSE IF AnyIn(KwCustomer, query_lower) THEN "customer_analysis"
    ELSE IF AnyIn(KwProduct, query_lower) THEN "product_analysis"
    ELSE IF AnyIn(KwGeographic, query_lower) THEN "geographic_analysis"
    ELSE IF AnyIn(KwFinancial, query_lower) THEN "financial_analysis"
    ELSE "general_analysis"

(***************************************************************************)
(* Dataset relevance (PowerBIContextBuilder._calculate_dataset_relevance). *)
(* Scores are in tenths.                                                   *)
(***************************************************************************)
\* intent_keywords.get(intent, []) of _find_relevant_datasets
intent_keywords(intent) ==
    CASE intent = "sales_analysis"       -> <<"sales", "revenue", "order", "transaction">>
      [] intent = "customer_analysis"    -> <<"customer", "client", "account", "crm">>
      [] intent = "product_analysis"     -> <<"product", "inventory", "item", "catalog">>
      [] intent = "financial_analysis"   -> <<"finance", "budget", "accounting", "expense">>
      [] intent = "performance_analysis" -> <<"performance", "kpi", "metric", "dashboard">>
      [] OTHER                           -> <<>>

\* intent_weights: per intent, the <<keyword, weight>> pairs in dictionary order
intent_weights(intent) ==
    CASE intent = "sales_analysis"     -> << <<"sales", 5>>, <<"revenue", 5>>, <<"order", 4>> >>
      [] intent = "customer_analysis"  -> << <<"customer", 5>>, <<"client", 4>>, <<"crm", 6>> >>
      [] intent = "financial_analysis" -> << <<"finance", 5>>, <<"budget", 4>>, <<"accounting", 5>> >>
      [] OTHER                         -> <<>>

\* the term loop counting each distinct term once
TermScoreDistinct(search_terms, dataset_name_lower) ==
    3 * Cardinality({ search_terms[i] : i \in
            { j \in 1..Len(search_terms) : IsSubstring(search_terms[j], dataset_name_lower) } })

\* for term in search_terms: if term in dataset_name_lower: score += 0.3
RECURSIVE TermScore(_, _)
TermScore(search_terms, dataset_name_lower) ==
    IF search_terms = <<>> THEN 0
    ELSE (IF IsSubstring(Head(search_terms), dataset_name_lower) THEN 3 ELSE 0)
         + TermScore(Tail(search_terms), dataset_name_lower)

\* for keyword, weight in intent_weights[intent].items(): if keyword in name: score += weight
RECURSIVE WeightScore(_, _)
WeightScore(pairs, dataset_name_lower) ==
    IF pairs = <<>> THEN 0
    ELSE (IF IsSubstring(Head(pairs)[1], dataset_name_lower) THEN Head(pairs)[2] ELSE 0)
         + WeightScore(Tail(pairs), dataset_name_lower)

calculate_dataset_relevance(dataset, search_terms, intent) ==
    LET dataset_name_lower   == Lower(dataset.name)
        workspace_name_lower == Lower(dataset.workspace_name)
        score == TermScore(search_terms, dataset_name_lower)
                 + WeightScore(intent_weights(intent), dataset_name_lower)
                 + (IF AnyIn(search_terms, workspace_name_lower) THEN 2 ELSE 0)
    IN  Min(score, 10)

(***************************************************************************)
(* The state the coroutine acts on, as one record, so that the code between*)
(* two suspensions is one function from state to state.  A coroutine is    *)
(* suspended only while an HTTP request is in flight (the awaits of        *)
(* aiohttp); everything between two such awaits runs without interleaving. *)
(***************************************************************************)
Cur ==
    [ pc |-> pc, caller |-> caller, user_query |-> user_query,
      start_time |-> start_time, context |-> context, loc |-> loc,
      thinking |-> thinking, results |-> results, insights |-> insights,
      result |-> result, stage_error |-> stage_error, wire |-> wire,
      workspace_cache |-> workspace_cache, dataset_cache |-> dataset_cache,
      heap |-> heap, query_history |-> query_history, stats |-> stats ]

\* the state the coroutine leaves when it is suspended again or returns
Install(s) ==
    \E v \in {s} :
        /\ pc' = v.pc
        /\ caller' = v.caller
        /\ user_query' = v.user_query
        /\ start_time' = v.start_time
        /\ context' = v.context
        /\ loc' = v.loc
        /\ thinking' = v.thinking
        /\ results' = v.results
        /\ insights' = v.insights
        /\ result' = v.result
        /\ stage_error' = v.stage_error
        /\ wire' = v.wire
        /\ workspace_cache' = v.workspace_cache
        /\ dataset_cache' = v.dataset_cache
        /\ heap' = v.heap
        /\ query_history' = v.query_history
        /\ stats' = v.stats

\* an HTTP request leaves: the coroutine is suspended at `at` until the response
Send(s, at, request) ==
    [s EXCEPT !.pc = at,
              !.wire = Append(@, [ to |-> request.to, op |-> request.op,
                                   arg |-> request.arg, answered |-> "pending" ])]

\* the request in flight is answered: the log keeps whether it succeeded
Answer(s, ok) ==
    [s EXCEPT !.wire[Len(s.wire)].answered = IF ok THEN "ok" ELSE "failed"]

\* HTTP responses: a status line with a decoded body, or an exception raised by
\* the HTTP client (network error, timeout) or by the decoding of the body
Status(code, body) == [kind |-> "status", status |-> code, body |-> body]
Raises(body) == [kind |-> "exception", status |-> 0, body |-> body]
Is200(response) == response.kind = "status" /\ response.status = 200
\* a language-model reply the client can use: status 200 and a body that decodes
LmOk(response) == Is200(response) /\ response.body.valid

(***************************************************************************)
(* PowerBIClient: the workspace and dataset listings and their caches.     *)
(***************************************************************************)
WorkspaceTTL == 600
DatasetTTL == 300

NoEntry == [present |-> FALSE, data |-> <<>>, timestamp |-> 0]
Entry(data, timestamp) == [present |-> TRUE, data |-> data, timestamp |-> timestamp]

\* timedelta.seconds: the seconds field of the difference, days not included
Seconds(delta) == delta % 86400

\* (datetime.now() - cached_data["timestamp"]).seconds < ttl
CacheFresh(entry, ttl) == entry.present /\ Seconds(now - entry.timestamp) < ttl

DatasetInfo(id, name, workspace_id, workspace_name) ==
    [ id |-> id, name |-> name, workspace_id |-> workspace_id,
      workspace_name |-> workspace_name,
      has_relevance_score |-> FALSE, relevance_score |-> 0 ]

\* get_workspaces up to its HTTP request: a value returned at once, or a request
get_workspaces_begin(s, force_refresh) ==
    IF ~force_refresh /\ CacheFresh(s.workspace_cache, WorkspaceTTL)
    THEN [kind |-> "return", value |-> s.workspace_cache.data]
    ELSE IF ~token_available
    THEN [kind |-> "return", value |-> <<>>]
    ELSE [kind |-> "send", value |-> <<>>]

\* get_workspaces storing what it returns whether the call succeeded or not
get_workspaces_end_caching_failure(s, response) ==
    LET workspaces == IF Is200(response)
                      THEN SelectSeq(response.body, LAMBDA ws : ws.state = "Active")
                      ELSE <<>>
    IN  [ value |-> workspaces,
          s |-> [s EXCEPT !.workspace_cache = Entry(workspaces, now)] ]

\* get_workspaces from the response on: the value returned and the cache
get_workspaces_end(s, response) ==
    IF Is200(response)
    THEN LET workspaces == SelectSeq(response.body, LAMBDA ws : ws.state = "Active")
         IN  [ value |-> workspaces,
               s |-> [s EXCEPT !.workspace_cache = Entry(workspaces, now)] ]
    ELSE [value |-> <<>>, s |-> s]

\* next((ws.name for ws in workspaces if ws.id == workspace_id), "Unknown Workspace")
workspace_name_of(workspaces, workspace_id) ==
    IF \E i \in 1..Len(workspaces) : workspaces[i].id = workspace_id
    THEN workspaces[CHOOSE i \in 1..Len(workspaces) :
                       /\ workspaces[i].id = workspace_id
                       /\ \A j \in 1..(i - 1) : workspaces[j].id # workspace_id].name
    ELSE "Unknown Workspace"

\* get_datasets storing the new listing under the timestamp of the entry it replaces
get_datasets_end_torn(s, workspace_id, workspace_name, response) ==
    IF Is200(response)
    THEN LET n == Len(response.body)
             created == [i \in 1..n |->
                            DatasetInfo(response.body[i].id, response.body[i].name,
                                        workspace_id, workspace_name)]
             datasets == [i \in 1..n |-> Len(s.heap) + i]
             old == s.dataset_cache[workspace_id]
         IN  [ value |-> datasets,
               s |-> [s EXCEPT !.heap = @ \o created,
                               !.dataset_cache[workspace_id] =
                                   Entry(datasets, IF old.present THEN old.timestamp
                                                   ELSE now)] ]
    ELSE [value |-> <<>>, s |-> s]

\* get_datasets from the response on: the objects created, the value, the cache
get_datasets_end(s, workspace_id, workspace_name, response) ==
    IF Is200(response)
    THEN LET n == Len(response.body)
             created == [i \in 1..n |->
                            DatasetInfo(response.body[i].id, response.body[i].name,
                                        workspace_id, workspace_name)]
             datasets == [i \in 1..n |-> Len(s.heap) + i]
         IN  [ value |-> datasets,
               s |-> [s EXCEPT !.heap = @ \o created,
                               !.dataset_cache[workspace_id] = Entry(datasets, now)] ]
    ELSE [value |-> <<>>, s |-> s]

(***************************************************************************)
(* JSON values whose type the code does not check before using them.       *)
(***************************************************************************)
JList(items) == [type |-> "list", items |-> items, num |-> 0]
JNum(n)      == [type |-> "number", items |-> <<>>, num |-> n]
JNull        == [type |-> "null", items |-> <<>>, num |-> 0]
JText        == [type |-> "string", items |-> <<>>, num |-> 0]
JMissing     == [type |-> "missing", items |-> <<>>, num |-> 0]

\* dict.get(key, default) on a key the reply may lack
GetOr(j, default) == IF j.type = "missing" THEN default ELSE j

\* bool(value), for the values above (the string stands for a non-empty one)
Truthy(j) ==
    CASE j.type = "list"   -> j.items # <<>>
      [] j.type = "number" -> j.num # 0
      [] j.type = "string" -> TRUE
      [] OTHER             -> FALSE

Digits == "0123456789"

RECURSIVE NatToStr(_)
NatToStr(n) ==
    IF n < 10 THEN CharAt(Digits, n + 1)
    ELSE NatToStr(n \div 10) \o CharAt(Digits, (n % 10) + 1)

\* str(n) and f"{n}" on an integer
IntToStr(n) == IF n < 0 THEN "-" \o NatToStr(-n) ELSE NatToStr(n)

\* f"{x:.1%}" on a value kept in thousandths
Percent1(c) ==
    IF c < 0 THEN "-" \o NatToStr((-c) \div 10) \o "." \o NatToStr((-c) % 10) \o "%"
    ELSE NatToStr(c \div 10) \o "." \o NatToStr(c % 10) \o "%"

\* the plan of one analysis (azure_openai_client.ThinkingProcess)
ThinkingProcess(intent, plan, summary, steps, queries, confidence) ==
    [ user_intent |-> intent, analysis_plan |-> plan,
      context_summary |-> summary, reasoning_steps |-> steps,
      dax_queries |-> queries, confidence_score |-> confidence ]

NoThinking == ThinkingProcess("", <<>>, "", <<>>, JList(<<>>), JNum(0))
(***************************************************************************)
(* PowerBIContextBuilder.build_context.                                    *)
(***************************************************************************)
HistoryLimit == 10
RecentQueries == 5
TopDatasets == 5

NewContext(user_q, intent) ==
    [ query |-> user_q, intent |-> intent,
      available_workspaces |-> <<>>, relevant_datasets |-> <<>>,
      schema_info |-> [tables |-> <<>>],
      recent_queries |-> <<>>, query_patterns |-> <<>>,
      business_context |-> [domain |-> "General Business", business_rules |-> <<>>],
      performance_hints |-> <<>>, estimated_complexity |-> "Medium" ]

NewLoc ==
    [ search_terms |-> <<>>, relevant |-> <<>>, ws_index |-> 1,
      workspace_name |-> "", q_index |-> 1, query_start |-> 0,
      planned |-> NoThinking,      \* history: what reasoning_analysis returned
      replies |-> <<>> ]           \* history: the replies to the planned queries sent

\* getattr(ds, 'relevance_score', 0)
RelevanceAttr(obj) == IF obj.has_relevance_score THEN obj.relevance_score ELSE 0

\* the body of `for dataset in datasets` in _find_relevant_datasets
RECURSIVE ScoreDatasets(_, _)
ScoreDatasets(s, datasets) ==
    IF datasets = <<>> THEN s
    ELSE LET dataset == Head(datasets)
             relevance_score ==
                 calculate_dataset_relevance(s.heap[dataset], s.loc.search_terms,
                                             s.context.intent)
             s1 == IF relevance_score > 3
                   THEN [s EXCEPT !.heap[dataset].relevance_score = relevance_score,
                                  !.heap[dataset].has_relevance_score = TRUE,
                                  !.loc.relevant = Append(@, dataset)]
                   ELSE s
         IN  ScoreDatasets(s1, Tail(datasets))

\* the candidates left in the order they were found
SortByRelevance_unsorted(refs, hp) == refs

\* sorted(..., key=relevance_score, reverse=True): stable, equal keys keep their order
RECURSIVE SortByRelevance(_, _)
SortByRelevance(refs, hp) ==
    IF refs = <<>> THEN <<>>
    ELSE LET sorted == SortByRelevance(SubSeq(refs, 1, Len(refs) - 1), hp)
             x == refs[Len(refs)]
             k == Cardinality({ i \in 1..Len(sorted) :
                                  RelevanceAttr(hp[sorted[i]]) >= RelevanceAttr(hp[x]) })
         IN  SubSeq(sorted, 1, k) \o <<x>> \o SubSeq(sorted, k + 1, Len(sorted))

\* _estimate_table_count
estimate_table_count(dataset) ==
    LET name_lower == Lower(dataset.name) IN
    IF IsSubstring("warehouse", name_lower) \/ IsSubstring("dwh", name_lower) THEN 15
    ELSE IF IsSubstring("cube", name_lower) \/ IsSubstring("olap", name_lower) THEN 8
    ELSE IF IsSubstring("report", name_lower) THEN 5
    ELSE 10

\* _build_schema_context
build_schema_context(s) ==
    LET rel == s.context.relevant_datasets IN
    [s EXCEPT !.context.schema_info =
        [tables |-> [i \in 1..Len(rel) |->
            [ dataset |-> s.heap[rel[i]].name,
              workspace |-> s.heap[rel[i]].workspace_name,
              estimated_tables |-> estimate_table_count(s.heap[rel[i]]) ]]]]

\* _build_business_context
build_business_context(s) ==
    LET intent == s.context.intent
        domain ==
            CASE intent = "sales_analysis"       -> "Sales & Marketing"
              [] intent = "customer_analysis"    -> "Customer Relations"
              [] intent = "financial_analysis"   -> "Finance & Accounting"
              [] intent = "product_analysis"     -> "Product Management"
              [] intent = "performance_analysis" -> "Business Intelligence"
              [] OTHER                           -> "General Business"
        rules ==
            CASE intent = "sales_analysis" ->
                   << "Focus on revenue trends and growth",
                      "Consider seasonality in retail data",
                      "Analyze by product, region, and time period" >>
              [] intent = "customer_analysis" ->
                   << "Prioritize customer lifetime value",
                      "Consider customer segmentation",
                      "Analyze retention and churn patterns" >>
              [] intent = "financial_analysis" ->
                   << "Ensure data accuracy for financial reporting",
                      "Consider fiscal year vs calendar year",
                      "Include budget vs actual comparisons" >>
              [] OTHER -> <<>>
    IN  [s EXCEPT !.context.business_context =
                      [domain |-> domain, business_rules |-> rules]]

LastN(seq, n) == SubSeq(seq, Len(seq) - Min(n, Len(seq)) + 1, Len(seq))

\* the history kept without the truncation to the last 10
build_historical_context_unbounded(s) ==
    LET appended == Append(s.query_history,
                           [ query |-> s.context.query, intent |-> s.context.intent,
                             timestamp |-> now ])
        seen == { appended[i].intent : i \in 1..Len(appended) }
    IN  [s EXCEPT !.query_history = appended,
                  !.context.recent_queries =
                      [i \in 1..Len(LastN(appended, RecentQueries)) |->
                          LastN(appended, RecentQueries)[i].query],
                  !.context.query_patterns =
                      [it \in seen |->
                          Cardinality({ i \in 1..Len(appended) : appended[i].intent = it })]]

\* the history truncated to the entries it held before, dropping the new one
build_historical_context_lossy(s) ==
    LET appended == Append(s.query_history,
                           [ query |-> s.context.query, intent |-> s.context.intent,
                             timestamp |-> now ])
        kept == IF Len(appended) > HistoryLimit THEN s.query_history ELSE appended
        seen == { kept[i].intent : i \in 1..Len(kept) }
    IN  [s EXCEPT !.query_history = kept,
                  !.context.recent_queries =
                      [i \in 1..Len(LastN(kept, RecentQueries)) |->
                          LastN(kept, RecentQueries)[i].query],
                  !.context.query_patterns =
                      [it \in seen |->
                          Cardinality({ i \in 1..Len(kept) : kept[i].intent = it })]]

\* _build_historical_context
build_historical_context(s) ==
    LET appended == Append(s.query_history,
                           [ query |-> s.context.query, intent |-> s.context.intent,
                             timestamp |-> now ])
        kept == IF Len(appended) > HistoryLimit THEN LastN(appended, HistoryLimit)
                ELSE appended
        seen == { kept[i].intent : i \in 1..Len(kept) }
    IN  [s EXCEPT !.query_history = kept,
                  !.context.recent_queries =
                      [i \in 1..Len(LastN(kept, RecentQueries)) |->
                          LastN(kept, RecentQueries)[i].query],
                  !.context.query_patterns =
                      [it \in seen |->
                          Cardinality({ i \in 1..Len(kept) : kept[i].intent = it })]]

RECURSIVE SumTables(_)
SumTables(tables) ==
    IF tables = <<>> THEN 0 ELSE Head(tables).estimated_tables + SumTables(Tail(tables))

\* _estimate_complexity; the score is in tenths
estimate_complexity(s) ==
    LET intent == s.context.intent
        intent_complexity ==
            CASE intent = "general_analysis"     -> 3
              [] intent = "sales_analysis"       -> 5
              [] intent = "trend_analysis"       -> 7
              [] intent = "comparison_analysis"  -> 8
              [] intent = "performance_analysis" -> 6
              [] OTHER                           -> 5
        complexity_score ==
            2 * Len(s.context.relevant_datasets)
            + Min(SumTables(s.context.schema_info.tables), 20)
            + intent_complexity
    IN  IF complexity_score < 10
        THEN [s EXCEPT !.context.estimated_complexity = "Low",
                       !.context.performance_hints =
                           <<"Simple query expected", "Fast execution likely">>]
        ELSE IF complexity_score < 20
        THEN [s EXCEPT !.context.estimated_complexity = "Medium",
                       !.context.performance_hints =
                           <<"Moderate complexity", "Consider data volume">>]
        ELSE [s EXCEPT !.context.estimated_complexity = "High",
                       !.context.performance_hints =
                           << "Complex analysis detected",
                              "May require multiple queries",
                              "Consider breaking into smaller parts" >>]

(***************************************************************************)
(* PowerBIClient.execute_dax_query.                                        *)
(***************************************************************************)
QueryResult(success, data, error, dataset_id, query_hash, execution_time_ms) ==
    [ success |-> success, data |-> data, error |-> error,
      row_count |-> IF success THEN Len(data) ELSE 0,
      dataset_id |-> dataset_id, query_hash |-> query_hash,
      execution_time_ms |-> execution_time_ms ]

\* hashlib.md5(f"{dataset_id}:{dax_query}"): the hash stands for what it hashes
QueryHash(dataset_id, dax_query) == dataset_id \o ":" \o dax_query

\* the result when the token provider yields no token: nothing is sent
no_token_result(dataset_id, dax_query) ==
    QueryResult(FALSE, <<>>, "No access token available", None,
                QueryHash(dataset_id, dax_query), 0)

\* execute_dax_query from the response on.  context_arg says what was passed as
\* `context`: "none", "ai_context" (the context builder's PowerBIContext, which
\* has no dataset_name attribute) or "client_context" (models.PowerBIContext).
execute_dax_query_end(dataset_id, dax_query, context_arg, started, response) ==
    LET query_hash == QueryHash(dataset_id, dax_query)
        execution_time == (now - started) * 1000
    IN
    IF response.kind = "exception"
    THEN QueryResult(FALSE, <<>>, "Error executing query: " \o response.body.text,
                     None, query_hash, execution_time)
    ELSE IF response.status = 200
    THEN IF response.body.results = "table"
         THEN IF context_arg = "ai_context"
              THEN \* context.dataset_name raises AttributeError inside the try
                   QueryResult(FALSE, <<>>,
                       "Error executing query: 'PowerBIContext' object has no attribute 'dataset_name'",
                       None, query_hash, execution_time)
              ELSE QueryResult(TRUE, response.body.rows, None, dataset_id,
                               query_hash, execution_time)
         ELSE IF response.body.results = "no_tables"
         THEN QueryResult(TRUE, <<>>, None, dataset_id, query_hash, execution_time)
         ELSE QueryResult(FALSE, <<>>, "No results returned from query", None,
                          query_hash, execution_time)
    ELSE QueryResult(FALSE, <<>>,
             "Query failed with status " \o IntToStr(response.status) \o ": "
                 \o response.body.text,
             None, query_hash, execution_time)

(***************************************************************************)
(* PowerBIReasoningEngine.analyze_request, last stage first.               *)
(***************************************************************************)
NoResults == [query_results |-> <<>>, data |-> <<>>, execution_summary |-> <<>>]
NoResult == [set |-> FALSE]
NoError == [raised |-> FALSE, message |-> ""]

\* an insight bundle: a JSON object, of which the code reads these keys, or
\* some other JSON value (type "list")
InsightDict(keys, insight_list, recommendations, summary, error, data) ==
    [ type |-> "dict", keys |-> keys, insights |-> insight_list,
      recommendations |-> recommendations, summary |-> summary,
      error |-> error, data |-> data ]
InsightNonDict == [InsightDict({}, <<>>, <<>>, "", "", JMissing) EXCEPT !.type = "list"]
NoInsights == InsightDict({}, <<>>, <<>>, "", "", JMissing)

\* _create_error_response
create_error_response(error_message) ==
    "(!) **Analysis Error**\n\nI encountered an issue while analyzing your Power BI data:\n\n**Error**: "
    \o error_message
    \o "\n\n**Suggestions**:\n- Check your Power BI data connections\n- Verify dataset permissions\n- Try rephrasing your question\n- Contact your administrator if the issue persists\n\nI'm ready to help once the issue is resolved!"

\* an exception that leaves analyze_request uncaught
analyze_request_uncaught(s, message) == [s EXCEPT !.pc = "crashed"]

\* analyze_request's `except Exception as e` block
analyze_request_except(s, message) ==
    [s EXCEPT
        !.pc = "done",
        !.result =
            [ set |-> TRUE,
              thinking |-> ThinkingProcess(s.user_query,
                               <<"Error occurred during analysis">>,
                               "Analysis failed", <<"Error: " \o message>>,
                               JList(<<>>), JNum(0)),
              response |-> create_error_response(message),
              query_results |-> <<>>, data |-> <<>>, confidence |-> 0,
              execution_time_ms |-> (now - s.start_time) * 1000,
              datasets_used |-> <<>>, success |-> FALSE,
              error_message |-> message, warnings |-> <<>> ]]

\* a stage of the pipeline raises `message` inside analyze_request's try block
Raise(s, message) ==
    analyze_request_except(
        [s EXCEPT !.stage_error = [raised |-> TRUE, message |-> message]], message)

\* analyze_request from the formatted response to its return
analyze_request_return(s, clean_response) ==
    LET execution_time == (now - s.start_time) * 1000
        rel == s.context.relevant_datasets
    IN  [s EXCEPT
            !.pc = "done",
            !.stats.total_execution_time = @ + execution_time,
            !.stats.success_count = @ + 1,
            !.result =
                [ set |-> TRUE, thinking |-> s.thinking, response |-> clean_response,
                  query_results |-> s.results.query_results,
                  data |-> s.results.data,
                  confidence |-> s.thinking.confidence_score.num,
                  execution_time_ms |-> execution_time,
                  datasets_used |-> [i \in 1..Len(rel) |-> s.heap[rel[i]].name],
                  success |-> TRUE, error_message |-> None, warnings |-> <<>> ]]

FirstN(seq, n) == SubSeq(seq, 1, Min(n, Len(seq)))

\* "\n".join(parts)
RECURSIVE Join(_)
Join(parts) ==
    IF parts = <<>> THEN ""
    ELSE IF Len(parts) = 1 THEN Head(parts)
    ELSE Head(parts) \o "\n" \o Join(Tail(parts))

Prefixed(items) == [i \in 1..Len(items) |-> "- " \o items[i]]

\* PowerBIReasoningEngine._create_fallback_response; insights is a dict here
\* (the pictographs of the template are left out)
engine_fallback_response(ins, think) ==
    Join( << "**Analysis Results**", "",
             "**Intent**: " \o think.user_intent,
             "**Confidence**: " \o Percent1(think.confidence_score.num), "" >>
          \o (IF "insights" \in ins.keys /\ ins.insights # <<>>
              THEN <<"**Key Insights:**">> \o Prefixed(FirstN(ins.insights, 3)) \o <<"">>
              ELSE <<>>)
          \o (IF "recommendations" \in ins.keys /\ ins.recommendations # <<>>
              THEN <<"**Recommendations:**">>
                   \o Prefixed(FirstN(ins.recommendations, 2)) \o <<"">>
              ELSE <<>>)
          \o (IF "summary" \in ins.keys /\ ins.summary # ""
              THEN <<"**Summary**: " \o ins.summary>> ELSE <<>>) )

\* AzureOpenAIClient._create_fallback_response; analysis is a dict here and
\* len(analysis.get('data', [])) is defined
client_fallback_response(analysis) ==
    "**Analysis Results**\n\nData retrieved successfully with "
    \o IntToStr(Len(GetOr(analysis.data, JList(<<>>)).items))
    \o " records.\n\n**Note**: Detailed analysis formatting unavailable - please review raw results."

\* _format_teams_response up to the HTTP request of format_business_response
format_teams_response_begin(s) ==
    Send(s, "http_format", [to |-> "lm", op |-> "format", arg |-> ""])

\* _format_teams_response with no fallback text: a failed formatting call raises
format_teams_response_end_unguarded(s, response) ==
    IF Is200(response) /\ response.body.valid
    THEN analyze_request_return(s, response.body.content)
    ELSE Raise(s, "formatting failed")

\* _format_teams_response sending the formatting request a second time when the
\* first one failed
format_teams_response_end_retrying(s, response) ==
    IF Is200(response) /\ response.body.valid
    THEN analyze_request_return(s, response.body.content)
    ELSE IF Cardinality({i \in 1..Len(s.wire) : s.wire[i].op = "format"}) < 2
    THEN format_teams_response_begin(s)
    ELSE analyze_request_return(s, engine_fallback_response(s.insights, s.thinking))

\* _format_teams_response from the response on, then the rest of analyze_request
format_teams_response_end(s, response) ==
    IF Is200(response) /\ response.body.valid
    THEN analyze_request_return(s, response.body.content)
    ELSE \* format_business_response falls back to _create_fallback_response(analysis)
         IF s.insights.type # "dict"
         THEN \* analysis.get raises there, and insights.get raises again in the
              \* engine's except block
              Raise(s, "'list' object has no attribute 'get'")
         ELSE IF GetOr(s.insights.data, JList(<<>>)).type # "list"
         THEN \* len() raises in the client; the engine's template is used
              analyze_request_return(s, engine_fallback_response(s.insights, s.thinking))
         ELSE analyze_request_return(s, client_fallback_response(s.insights))

\* the canned set of _generate_insights for empty data
NoDataInsights ==
    InsightDict({"insights", "recommendations", "summary"},
                <<"No data available for analysis">>,
                <<"Check data availability and query validity">>,
                "Analysis could not be completed due to lack of data", "", JMissing)

\* _generate_insights up to the HTTP request of analyze_results
generate_insights_begin(s) ==
    IF s.results.data = <<>>
    THEN format_teams_response_begin([s EXCEPT !.insights = NoDataInsights])
    ELSE Send(s, "http_insights", [to |-> "lm", op |-> "insights", arg |-> ""])

\* AzureOpenAIClient.analyze_results from the response on
analyze_results_end(response) ==
    IF Is200(response) /\ response.body.valid
    THEN response.body.content
    ELSE IF response.kind = "status" /\ response.status # 200
    THEN InsightDict({"error"}, <<>>, <<>>, "",
                     "Analysis failed: " \o response.body.text, JMissing)
    ELSE InsightDict({"error"}, <<>>, <<>>, "",
                     "Analysis error: " \o response.body.text, JMissing)

\* _generate_insights from the response on, then _format_teams_response
generate_insights_end(s, response) ==
    format_teams_response_begin([s EXCEPT !.insights = analyze_results_end(response)])

\* the bookkeeping of one executed query in _execute_analysis_plan's loop
record_query_result(s, query_result) ==
    LET i == s.loc.q_index
        ok == query_result.success /\ query_result.data # <<>>
    IN  [s EXCEPT
            !.results.query_results = Append(@, query_result),
            !.results.data = IF ok THEN @ \o query_result.data ELSE @,
            !.results.execution_summary =
                Append(@, IF ok
                          THEN "Query " \o IntToStr(i) \o ": "
                               \o IntToStr(query_result.row_count) \o " rows retrieved"
                          ELSE "Query " \o IntToStr(i) \o ": Failed - "
                               \o (IF query_result.error = None THEN "Unknown error"
                                   ELSE query_result.error)),
            !.loc.q_index = i + 1]

\* the bookkeeping of the probe in _execute_fallback_analysis
record_fallback_result(s, query_result) ==
    [s EXCEPT
        !.results.query_results = Append(@, query_result),
        !.results.data = IF query_result.success THEN query_result.data ELSE @,
        !.results.execution_summary =
            Append(@, IF query_result.success
                      THEN "Fallback analysis: Basic dataset info retrieved"
                      ELSE "Fallback analysis also failed")]

basic_query(dataset) ==
    "EVALUATE ROW(\"Dataset\", \"" \o dataset.name \o "\", \"Workspace\", \""
    \o dataset.workspace_name \o "\")"

QueryRequest(op, dataset_id, dax_query) ==
    [to |-> "bi", op |-> op, arg |-> QueryHash(dataset_id, dax_query)]

\* _execute_analysis_plan after its loop: the probe, then _generate_insights
execute_analysis_plan_tail(s) ==
    IF s.results.query_results = <<>> /\ s.context.relevant_datasets # <<>>
    THEN LET dataset == s.heap[s.context.relevant_datasets[1]] IN
         IF ~token_available
         THEN generate_insights_begin(
                  record_fallback_result(s,
                      no_token_result(dataset.id, basic_query(dataset))))
         ELSE Send([s EXCEPT !.loc.query_start = now], "http_probe",
                   QueryRequest("probe", dataset.id, basic_query(dataset)))
    ELSE generate_insights_begin(s)

\* _execute_fallback_analysis from the response on (no context is passed)
execute_fallback_analysis_end(s, response) ==
    LET dataset == s.heap[s.context.relevant_datasets[1]] IN
    generate_insights_begin(
        record_fallback_result(s,
            execute_dax_query_end(dataset.id, basic_query(dataset), "none",
                                  s.loc.query_start, response)))

\* the loop sending each query to the last dataset of the context
RECURSIVE execute_analysis_plan_loop_last_dataset(_)
execute_analysis_plan_loop_last_dataset(s) ==
    LET queries == s.thinking.dax_queries.items
        i == s.loc.q_index
        rel == s.context.relevant_datasets
    IN
    IF i > Len(queries) THEN execute_analysis_plan_tail(s)
    ELSE IF rel = <<>>
    THEN execute_analysis_plan_loop_last_dataset([s EXCEPT !.loc.q_index = i + 1])
    ELSE LET dataset == s.heap[rel[Len(rel)]] IN
         IF ~token_available
         THEN execute_analysis_plan_loop_last_dataset(
                  record_query_result(s, no_token_result(dataset.id, queries[i])))
         ELSE Send([s EXCEPT !.loc.query_start = now], "http_query",
                   QueryRequest("query", dataset.id, queries[i]))

\* the loop of _execute_analysis_plan from query number loc.q_index on
RECURSIVE execute_analysis_plan_loop(_)
execute_analysis_plan_loop(s) ==
    LET queries == s.thinking.dax_queries.items
        i == s.loc.q_index
    IN
    IF i > Len(queries) THEN execute_analysis_plan_tail(s)
    ELSE IF s.context.relevant_datasets = <<>>
    THEN execute_analysis_plan_loop([s EXCEPT !.loc.q_index = i + 1])
    ELSE LET dataset == s.heap[s.context.relevant_datasets[1]] IN
         IF ~token_available
         THEN execute_analysis_plan_loop(
                  record_query_result(s, no_token_result(dataset.id, queries[i])))
         ELSE Send([s EXCEPT !.loc.query_start = now], "http_query",
                   QueryRequest("query", dataset.id, queries[i]))

\* execute_dax_query's response for query number loc.q_index, then the loop goes on
execute_analysis_plan_resume(s, response) ==
    LET dataset == s.heap[s.context.relevant_datasets[1]]
        dax_query == s.thinking.dax_queries.items[s.loc.q_index]
    IN  execute_analysis_plan_loop(
            record_query_result([s EXCEPT !.loc.replies = Append(@, response)],
                execute_dax_query_end(dataset.id, dax_query, "ai_context",
                                      s.loc.query_start, response)))

\* _execute_analysis_plan from its start
execute_analysis_plan_begin(s) ==
    LET s1 == [s EXCEPT !.results = NoResults, !.loc.q_index = 1] IN
    IF s.thinking.dax_queries.type # "list"
    THEN Raise(s1, IF s.thinking.dax_queries.type = "null"
                   THEN "'NoneType' object is not iterable"
                   ELSE "'int' object is not iterable")
    ELSE execute_analysis_plan_loop(s1)

\* _assess_context_quality, in tenths
assess_context_quality(ctx) ==
    Min(5
        + (IF ctx.relevant_datasets # <<>> THEN 2 ELSE 0)
        + (IF Len(ctx.relevant_datasets) > 1 THEN 1 ELSE 0)
        + (IF ctx.schema_info.tables # <<>> THEN 1 ELSE 0)
        + (IF ctx.business_context.business_rules # <<>> THEN 1 ELSE 0),
        10)

\* the synthesized query always the row-count one, whatever the intent
generate_fallback_queries_generic(ctx, hp) ==
    IF ctx.relevant_datasets = <<>> THEN <<>>
    ELSE LET name == hp[ctx.relevant_datasets[1]].name IN
         << "EVALUATE SUMMARIZE(" \o name \o ", \"Row Count\", COUNTROWS("
            \o name \o "))" >>

\* _generate_fallback_queries
generate_fallback_queries(ctx, hp) ==
    IF ctx.relevant_datasets = <<>> THEN <<>>
    ELSE LET name == hp[ctx.relevant_datasets[1]].name IN
         IF ctx.intent = "sales_analysis"
         THEN << "EVALUATE TOPN(10, SUMMARIZE(" \o name
                 \o ", [Product], \"Total Sales\", SUM([Sales Amount])), [Total Sales], DESC)" >>
         ELSE IF ctx.intent = "trend_analysis"
         THEN << "EVALUATE SUMMARIZE(" \o name \o ", [Date], \"Value\", SUM([Amount]))" >>
         ELSE << "EVALUATE SUMMARIZE(" \o name \o ", \"Row Count\", COUNTROWS("
                 \o name \o "))" >>

\* a fallback plan of AzureOpenAIClient with no analysis steps and full confidence
create_fallback_thinking_confident(user_q) ==
    ThinkingProcess("Analyze: " \o user_q, <<>>, "Limited context available",
                    <<"Process user request", "Execute queries", "Format response">>,
                    JList(<<>>), JNum(1000))

\* AzureOpenAIClient._create_fallback_thinking
create_fallback_thinking(user_q) ==
    ThinkingProcess("Analyze: " \o user_q,
                    <<"Retrieve data", "Analyze results", "Generate insights">>,
                    "Limited context available",
                    <<"Process user request", "Execute queries", "Format response">>,
                    JList(<<>>), JNum(300))

\* AzureOpenAIClient.reasoning_analysis from the response on
reasoning_analysis_end(user_q, response) ==
    IF Is200(response) /\ response.body.valid
    THEN ThinkingProcess(response.body.user_intent, response.body.analysis_plan,
                         response.body.context_summary, response.body.reasoning_steps,
                         GetOr(response.body.dax_queries, JList(<<>>)),
                         GetOr(response.body.confidence_score, JNum(500)))
    ELSE create_fallback_thinking(user_q)

\* _enhance_thinking_with_context; raised says that it raised (TypeError on a
\* confidence that is not a number)
enhance_thinking_with_context(think, ctx, hp) ==
    LET dax_queries ==
            IF ~Truthy(think.dax_queries) /\ ctx.relevant_datasets # <<>>
            THEN JList(generate_fallback_queries(ctx, hp))
            ELSE think.dax_queries
        context_quality_score == assess_context_quality(ctx)
    IN  IF think.confidence_score.type # "number"
        THEN [raised |-> TRUE, thinking |-> think]
        ELSE [ raised |-> FALSE,
               thinking |->
                   [think EXCEPT
                       !.dax_queries = dax_queries,
                       !.confidence_score =
                           JNum(Min((think.confidence_score.num * context_quality_score)
                                        \div 10, 1000)),
                       !.reasoning_steps =
                           IF ctx.estimated_complexity = "High"
                           THEN Append(@, "Consider query optimization due to high complexity")
                           ELSE @] ]

\* _internal_reasoning up to the HTTP request of reasoning_analysis
internal_reasoning_begin(s) ==
    Send(s, "http_plan", [to |-> "lm", op |-> "plan", arg |-> ""])

\* _internal_reasoning from the response on, then _execute_analysis_plan
internal_reasoning_end(s, response) ==
    LET planned == reasoning_analysis_end(s.user_query, response)
        enhanced == enhance_thinking_with_context(planned, s.context, s.heap)
        think == IF enhanced.raised
                 THEN ThinkingProcess("Analyze: " \o s.user_query,
                          <<"Retrieve available data", "Process results", "Generate response">>,
                          "Available datasets: "
                              \o IntToStr(Len(s.context.relevant_datasets)),
                          <<"Basic analysis due to reasoning error">>,
                          JList(<<>>), JNum(400))
                 ELSE enhanced.thinking
    IN  execute_analysis_plan_begin(
            [s EXCEPT !.thinking = think, !.loc.planned = planned])

(***************************************************************************)
(* build_context: control flow across the catalog requests.                *)
(***************************************************************************)
\* build_context after _build_powerbi_context's loop: the top five, the schema,
\* business, history and complexity parts, then the return to the caller
build_context_tail(s) ==
    LET s1 == [s EXCEPT !.context.relevant_datasets =
                   FirstN(SortByRelevance(s.loc.relevant, s.heap), TopDatasets)]
        s2 == estimate_complexity(
                  build_historical_context(
                      build_business_context(build_schema_context(s1))))
    IN  IF s.caller = "build_context"
        THEN [s2 EXCEPT !.pc = "done",
                        !.result = [set |-> TRUE, context |-> s2.context]]
        ELSE internal_reasoning_begin(s2)

DatasetsRequest(workspace_id) == [to |-> "bi", op |-> "datasets", arg |-> workspace_id]

\* the workspace loop of _find_relevant_datasets from workspace number
\* loc.ws_index on, each get_datasets run up to its first HTTP request
RECURSIVE find_relevant_datasets_loop(_)
find_relevant_datasets_loop(s) ==
    LET i == s.loc.ws_index IN
    IF i > Len(s.context.available_workspaces) THEN build_context_tail(s)
    ELSE LET workspace_id == s.context.available_workspaces[i].id IN
         IF CacheFresh(s.dataset_cache[workspace_id], DatasetTTL)
         THEN find_relevant_datasets_loop(
                  [ScoreDatasets(s, s.dataset_cache[workspace_id].data)
                      EXCEPT !.loc.ws_index = i + 1])
         ELSE IF ~token_available
         THEN find_relevant_datasets_loop(
                  [s EXCEPT !.loc.ws_index = i + 1])
         ELSE IF workspace_id = "me"
         THEN Send([s EXCEPT !.loc.workspace_name = "My Workspace"],
                   "http_datasets", DatasetsRequest(workspace_id))
         ELSE LET nested == get_workspaces_begin(s, FALSE) IN
              IF nested.kind = "return"
              THEN Send([s EXCEPT !.loc.workspace_name =
                                      workspace_name_of(nested.value, workspace_id)],
                        "http_datasets", DatasetsRequest(workspace_id))
              ELSE Send(s, "http_groups_nested",
                        [to |-> "bi", op |-> "groups", arg |-> ""])

\* get_datasets after its nested get_workspaces returned: the dataset request
get_datasets_resume(s, response) ==
    LET got == get_workspaces_end(s, response)
        workspace_id == s.context.available_workspaces[s.loc.ws_index].id
    IN  Send([got.s EXCEPT !.loc.workspace_name =
                               workspace_name_of(got.value, workspace_id)],
             "http_datasets", DatasetsRequest(workspace_id))

\* the response of get_datasets' request for workspace number loc.ws_index: its
\* datasets are scored and the loop goes on
find_relevant_datasets_resume(s, response) ==
    LET workspace_id == s.context.available_workspaces[s.loc.ws_index].id
        got == get_datasets_end(s, workspace_id, s.loc.workspace_name, response)
        s1 == [ScoreDatasets(got.s, got.value) EXCEPT !.loc.ws_index = @ + 1]
    IN  find_relevant_datasets_loop(s1)

\* _build_powerbi_context once get_workspaces has returned
find_relevant_datasets_begin(s, workspaces) ==
    find_relevant_datasets_loop(
        [s EXCEPT !.context.available_workspaces = workspaces,
                  !.loc.search_terms =
                      intent_keywords(s.context.intent) \o Split(Lower(s.context.query)),
                  !.loc.relevant = <<>>,
                  !.loc.ws_index = 1])

\* build_context up to the first HTTP request
build_context_begin(s) ==
    LET s1 == [s EXCEPT !.context = NewContext(s.user_query,
                                               classify_intent(s.user_query)),
                        !.loc = NewLoc]
        listed == get_workspaces_begin(s1, FALSE)
    IN  IF listed.kind = "return"
        THEN find_relevant_datasets_begin(s1, listed.value)
        ELSE Send(s1, "http_groups", [to |-> "bi", op |-> "groups", arg |-> ""])

\* get_workspaces' response for _build_powerbi_context
build_powerbi_context_resume(s, response) ==
    LET got == get_workspaces_end(s, response) IN
    find_relevant_datasets_begin(got.s, got.value)

(***************************************************************************)
(* The environment: what the BI service holds, and what the two remote     *)
(* services may answer.                                                    *)
(***************************************************************************)
WsIds == {"w1", "w2", "w3"}

Workspace(id, name, state) == [id |-> id, name |-> name, state |-> state]
Dataset(id, name) == [id |-> id, name |-> name]

CatalogEmpty ==
    [ workspaces |-> <<>>, datasets |-> [w \in WsIds |-> <<>>] ]

CatalogFinance ==
    [ workspaces |-> << Workspace("w1", "Finance", "Active") >>,
      datasets |-> [w \in WsIds |->
          IF w = "w1" THEN << Dataset("d1", "Sales_2024") >> ELSE <<>>] ]

CatalogSales ==
    [ workspaces |-> << Workspace("w1", "Team A", "Active"),
                        Workspace("w2", "Archive", "Deleted"),
                        Workspace("w3", "Sales Ops", "Active") >>,
      datasets |-> [w \in WsIds |->
          IF w = "w1"
          THEN << Dataset("d1", "Revenue_Report"), Dataset("d2", "Transactions"),
                  Dataset("d3", "Sales_2024"), Dataset("d4", "Top_Products"),
                  Dataset("d5", "HR_Data"), Dataset("d6", "Orders"),
                  Dataset("d7", "Sales_Warehouse_2024") >>
          ELSE IF w = "w2" THEN << Dataset("d8", "Old_Sales") >>
          ELSE << Dataset("d9", "Budget"), Dataset("d10", "Order_Items"),
                  Dataset("d11", "Transactions_Log") >>] ]

CatalogTwo ==
    [ workspaces |-> << Workspace("w1", "Finance", "Active"),
                        Workspace("w2", "Archive", "Deleted"),
                        Workspace("w3", "Sales Ops", "Active") >>,
      datasets |-> [w \in WsIds |->
          IF w = "w1" THEN << Dataset("d1", "Sales_2024") >>
          ELSE IF w = "w2" THEN << Dataset("d8", "Old_Sales") >>
          ELSE << Dataset("d10", "Orders") >>] ]

Catalogs == {CatalogEmpty, CatalogFinance}
ContextCatalogs == {CatalogEmpty, CatalogTwo, CatalogSales}

Questions ==
    { "What were our top sales products last quarter?", "", " \t" }

ContextQuestions ==
    { "What were our top sales products last quarter?",
      "Show me customer retention rates", "" }

HistoryQuestions == {"sales", "kpi"}

Failure(text) == [valid |-> FALSE, text |-> text]

GroupsResponses ==
    { Status(200, service.workspaces), Status(500, <<>>), Raises(<<>>) }

DatasetsResponses(workspace_id) ==
    { Status(200, service.datasets[workspace_id]), Status(403, <<>>), Raises(<<>>) }

PlanBody(dax_queries, confidence_score) ==
    [ valid |-> TRUE, user_intent |-> "Review sales",
      analysis_plan |-> <<"Query the totals", "Rank them">>,
      context_summary |-> "One dataset", reasoning_steps |-> <<"Look at totals">>,
      dax_queries |-> dax_queries, confidence_score |-> confidence_score ]

PlanResponses ==
    { Status(200, PlanBody(JList(<<"EVALUATE Sales", "EVALUATE Products">>), JNum(850))),
      Status(200, PlanBody(JMissing, JMissing)),
      Status(200, PlanBody(JNull, JNum(1500))),
      Status(200, PlanBody(JNum(7), JNum(-200))),
      Status(200, PlanBody(JList(<<"EVALUATE Sales">>), JNum(-200))),
      Status(200, PlanBody(JList(<<"EVALUATE Sales">>), JText)),
      Status(200, Failure("not JSON")),
      Status(500, Failure("Internal Server Error")),
      Raises(Failure("timeout")) }

QueryBody(kind, rows) == [results |-> kind, rows |-> rows, text |-> ""]

QueryResponses ==
    { Status(200, QueryBody("table", <<"row 1", "row 2">>)),
      Status(200, QueryBody("no_tables", <<>>)),
      Status(200, QueryBody("none", <<>>)),
      Status(400, [results |-> "none", rows |-> <<>>, text |-> "Bad Request"]),
      Raises([results |-> "none", rows |-> <<>>, text |-> "timeout"]) }

InsightsResponses ==
    { Status(200, [ valid |-> TRUE,
                    content |-> InsightDict({"insights", "recommendations", "summary"},
                                    <<"i1", "i2", "i3", "i4">>, <<"r1", "r2", "r3">>,
                                    "All good", "", JMissing) ]),
      Status(200, [ valid |-> TRUE,
                    content |-> InsightDict({"summary", "data"}, <<>>, <<>>,
                                            "Five", "", JNum(5)) ]),
      Status(200, [valid |-> TRUE, content |-> InsightNonDict]),
      Status(500, Failure("Internal Server Error")),
      Raises(Failure("timeout")) }

FormatResponses ==
    { Status(200, [valid |-> TRUE, content |-> "Formatted answer"]),
      Status(500, Failure("Internal Server Error")),
      Raises(Failure("timeout")) }

TickDeltas == {600}

MaxRequests == 1
MaxTicks == 1
MaxContextCalls == 2
MaxHistoryCalls == 15

(***************************************************************************)
(* Actions.                                                                *)
(***************************************************************************)
env == <<now, service, token_available, calls, nticks, call, ret>>

Idle == pc \in {"idle", "done"}

\* a fresh request frame for an entry point
Frame(entry, q) ==
    [Cur EXCEPT !.caller = entry, !.user_query = q, !.start_time = now,
                !.thinking = NoThinking, !.results = NoResults,
                !.insights = NoInsights, !.result = NoResult,
                !.stage_error = NoError, !.wire = <<>>]

\* PowerBIReasoningEngine.analyze_request is called
AnalyzeStart ==
    /\ Idle
    /\ Len(calls) < MaxRequests
    /\ \E q \in Questions :
          /\ Install(build_context_begin(
                 [Frame("analyze_request", q) EXCEPT !.stats.analysis_count = @ + 1]))
          /\ calls' = Append(calls, q)
    /\ UNCHANGED <<now, service, token_available, nticks, call, ret>>

\* PowerBIContextBuilder.build_context is called by itself
BuildContextStart ==
    /\ Idle
    /\ Len(calls) < MaxContextCalls
    /\ \E q \in ContextQuestions :
          /\ Install(build_context_begin(Frame("build_context", q)))
          /\ calls' = Append(calls, q)
    /\ UNCHANGED <<now, service, token_available, nticks, call, ret>>

\* build_context is called by itself, many times in a row
HistoryStart ==
    /\ Idle
    /\ Len(calls) < MaxHistoryCalls
    /\ \E q \in HistoryQuestions :
          /\ Install(build_context_begin(Frame("build_context", q)))
          /\ calls' = Append(calls, q)
    /\ UNCHANGED <<now, service, token_available, nticks, call, ret>>

\* the workspace listing requested by _build_powerbi_context is answered
GroupsResponse ==
    /\ pc = "http_groups"
    /\ \E r \in GroupsResponses : Install(build_powerbi_context_resume(Answer(Cur, Is200(r)), r))
    /\ UNCHANGED env

\* the workspace listing requested inside get_datasets is answered
NestedGroupsResponse ==
    /\ pc = "http_groups_nested"
    /\ \E r \in GroupsResponses : Install(get_datasets_resume(Answer(Cur, Is200(r)), r))
    /\ UNCHANGED env

\* a dataset listing is answered
DatasetsResponse ==
    /\ pc = "http_datasets"
    /\ \E r \in DatasetsResponses(context.available_workspaces[loc.ws_index].id) :
          Install(find_relevant_datasets_resume(Answer(Cur, Is200(r)), r))
    /\ UNCHANGED env

\* the language model answers the planning request
PlanResponse ==
    /\ pc = "http_plan"
    /\ \E r \in PlanResponses : Install(internal_reasoning_end(Answer(Cur, LmOk(r)), r))
    /\ UNCHANGED env

\* a planned query is answered
QueryResponse ==
    /\ pc = "http_query"
    /\ \E r \in QueryResponses : Install(execute_analysis_plan_resume(Answer(Cur, Is200(r)), r))
    /\ UNCHANGED env

\* the probe query is answered
ProbeResponse ==
    /\ pc = "http_probe"
    /\ \E r \in QueryResponses : Install(execute_fallback_analysis_end(Answer(Cur, Is200(r)), r))
    /\ UNCHANGED env

\* the language model answers the insights request
InsightsResponse ==
    /\ pc = "http_insights"
    /\ \E r \in InsightsResponses : Install(generate_insights_end(Answer(Cur, LmOk(r)), r))
    /\ UNCHANGED env

\* the language model answers the formatting request
FormatResponse ==
    /\ pc = "http_format"
    /\ \E r \in FormatResponses : Install(format_teams_response_end(Answer(Cur, LmOk(r)), r))
    /\ UNCHANGED env

\* time passes
Tick ==
    /\ nticks < MaxTicks
    /\ \E d \in TickDeltas : now' = now + d
    /\ nticks' = nticks + 1
    /\ UNCHANGED <<service, token_available, workspace_cache, dataset_cache, heap,
                   query_history, stats, pc, caller, user_query, start_time, context,
                   loc, thinking, results, insights, result, stage_error, wire,
                   calls, call, ret>>

\* the token provider starts or stops yielding a token
AuthChange ==
    /\ token_available' = ~token_available
    /\ UNCHANGED <<now, service, workspace_cache, dataset_cache, heap,
                   query_history, stats, pc, caller, user_query, start_time, context,
                   loc, thinking, results, insights, result, stage_error, wire,
                   calls, nticks, call, ret>>

NoCall == [fn |-> "none"]
NoRet  == [set |-> FALSE]
Returned(v) == [set |-> TRUE, value |-> v]

\* the objects as their constructors leave them
Constructed ==
    /\ now = 0
    /\ workspace_cache = NoEntry
    /\ dataset_cache = [w \in WsIds |-> NoEntry]
    /\ heap = <<>>
    /\ query_history = <<>>
    /\ stats = [analysis_count |-> 0, success_count |-> 0, total_execution_time |-> 0]
    /\ pc = "idle"
    /\ caller = "none"
    /\ user_query = ""
    /\ start_time = 0
    /\ context = NewContext("", "general_analysis")
    /\ loc = NewLoc
    /\ thinking = NoThinking
    /\ results = NoResults
    /\ insights = NoInsights
    /\ result = NoResult
    /\ stage_error = NoError
    /\ wire = <<>>
    /\ calls = <<>>
    /\ nticks = 0

Init ==
    /\ Constructed
    /\ service \in Catalogs
    /\ token_available \in BOOLEAN
    /\ call = NoCall
    /\ ret = NoRet

Next ==
    \/ AnalyzeStart
    \/ GroupsResponse
    \/ DatasetsResponse
    \/ PlanResponse
    \/ QueryResponse
    \/ ProbeResponse
    \/ InsightsResponse
    \/ FormatResponse
    \/ Tick
    \/ AuthChange

Spec == Init /\ [][Next]_vars

(***************************************************************************)
(* build_context called directly, on a catalog with several workspaces.    *)
(***************************************************************************)
InitContext ==
    /\ Constructed
    /\ service \in ContextCatalogs
    /\ token_available \in BOOLEAN
    /\ call = NoCall
    /\ ret = NoRet

NextContext ==
    \/ BuildContextStart
    \/ GroupsResponse
    \/ NestedGroupsResponse
    \/ DatasetsResponse
    \/ Tick
    \/ AuthChange

SpecContext == InitContext /\ [][NextContext]_vars

(***************************************************************************)
(* Many build_context calls in a row on one builder.                       *)
(***************************************************************************)
InitHistory ==
    /\ Constructed
    /\ service = CatalogEmpty
    /\ token_available = TRUE
    /\ call = NoCall
    /\ ret = NoRet

NextHistory ==
    \/ HistoryStart
    \/ GroupsResponse

SpecHistory == InitHistory /\ [][NextHistory]_vars

(***************************************************************************)
(* Direct calls of the pure methods, each on arguments drawn at the start. *)
(***************************************************************************)
ClassifyVocabulary ==
    { "sales", "Revenue", "kpi", "TRENDS", "over time", "versus", "Top",
      "customers", "products", "city", "budget", "overview", "performing" }

ClassifyQuestions ==
    { "What were our top performing products last quarter?",
      "What were our top sales products last quarter?",
      "Show me customer retention rates",
      "Analyze revenue trends over time",
      "Give me a general business overview", "", "   ", " \t\n" }
    \cup ClassifyVocabulary
    \cup { a \o " " \o b : a \in ClassifyVocabulary, b \in ClassifyVocabulary }

RelevanceNames ==
    { "Sales_Warehouse_2024", "Revenue_Orders", "Customer_CRM",
      "Budget_Finance_Accounting", "HR_Data", "sales" }

RelevanceWorkspaces == {"Finance", "Sales Team"}

RelevanceTerms ==
    { <<"sales", "revenue">>, <<"sales", "sales", "order">>, <<>>,
      <<"customer", "client", "account", "crm", "customer">>,
      <<"finance", "budget", "accounting", "expense", "data", "a">> }

RelevanceIntents ==
    { "sales_analysis", "customer_analysis", "financial_analysis",
      "trend_analysis", "general_analysis" }

\* _classify_intent is called and returns
ClassifyCall ==
    /\ call.fn = "classify_intent"
    /\ ~ret.set
    /\ ret' = Returned(classify_intent(call.user_query))
    /\ UNCHANGED <<now, service, token_available, workspace_cache, dataset_cache,
                   heap, query_history, stats, pc, caller, user_query, start_time,
                   context, loc, thinking, results, insights, result, stage_error,
                   wire, calls, nticks, call>>

\* _calculate_dataset_relevance is called and returns
RelevanceCall ==
    /\ call.fn = "calculate_dataset_relevance"
    /\ ~ret.set
    /\ ret' = Returned(calculate_dataset_relevance(
                  DatasetInfo("d", call.name, "w", call.workspace_name),
                  call.search_terms, call.intent))
    /\ UNCHANGED <<now, service, token_available, workspace_cache, dataset_cache,
                   heap, query_history, stats, pc, caller, user_query, start_time,
                   context, loc, thinking, results, insights, result, stage_error,
                   wire, calls, nticks, call>>

InitClassify ==
    /\ Constructed
    /\ service = CatalogEmpty
    /\ token_available = TRUE
    /\ call \in { [fn |-> "classify_intent", user_query |-> q] : q \in ClassifyQuestions }
    /\ ret = NoRet

SpecClassify == InitClassify /\ [][ClassifyCall]_vars

InitRelevance ==
    /\ Constructed
    /\ service = CatalogEmpty
    /\ token_available = TRUE
    /\ call \in { [ fn |-> "calculate_dataset_relevance", name |-> n,
                    workspace_name |-> w, search_terms |-> st, intent |-> it ] :
                  n \in RelevanceNames, w \in RelevanceWorkspaces,
                  st \in RelevanceTerms, it \in RelevanceIntents }
    /\ ret = NoRet

SpecRelevance == InitRelevance /\ [][RelevanceCall]_vars

(***************************************************************************)
(* The claims.                                                             *)
(***************************************************************************)
Range(seq) == { seq[i] : i \in 1..Len(seq) }

Returns == pc = "done"
AnalyzeReturns == pc = "done" /\ caller = "analyze_request"
BuildContextReturns == pc = "done" /\ caller = "build_context"

\* C1: analyze_request never raises: no call ends in an uncaught exception, and
\* a call in which a stage raised returns success = false with the error message
\* set, confidence 0, the raw question as the intent, exactly one reasoning step,
\* no data and no query results; a call in which no stage raised returns
\* success = true.
C1_NeverRaises ==
    /\ pc # "crashed"
    /\ AnalyzeReturns =>
          /\ result.set
          /\ IF stage_error.raised
             THEN /\ result.success = FALSE
                  /\ result.error_message # None
                  /\ result.error_message = stage_error.message
                  /\ result.confidence = 0
                  /\ result.thinking.confidence_score = JNum(0)
                  /\ result.thinking.user_intent = user_query
                  /\ Len(result.thinking.reasoning_steps) = 1
                  /\ result.data = <<>>
                  /\ result.query_results = <<>>
             ELSE result.success = TRUE

\* C1 witness: a call of analyze_request in which a stage raised has returned
C1_Witness ==
    /\ AnalyzeReturns
    /\ stage_error.raised
    /\ result.success = FALSE
    /\ user_query \in {"", " \t"}

AllLmCallsFailed ==
    /\ \E i \in 1..Len(wire) : wire[i].to = "lm"
    /\ \A i \in 1..Len(wire) : wire[i].to = "lm" => wire[i].answered = "failed"

\* C2: when every language-model call of a request failed, analyze_request
\* returns success = true, whatever the catalog held and whatever the catalog
\* and query calls answered.
C2_FullFallbackChain ==
    (AnalyzeReturns /\ AllLmCallsFailed) => (result.set /\ result.success = TRUE)

\* C2 witness: a request with datasets and executed queries, all of whose
\* language-model calls failed, has returned
C2_Witness ==
    /\ AnalyzeReturns
    /\ AllLmCallsFailed
    /\ result.success = TRUE
    /\ result.datasets_used # <<>>
    /\ result.query_results # <<>>

\* C3: "What were our top performing products last quarter?" is classified as
\* sales_analysis.
C3_TopPerformingIsSales ==
    (ret.set /\ call.fn = "classify_intent"
       /\ call.user_query = "What were our top performing products last quarter?")
    => ret.value = "sales_analysis"

\* the buckets in the order the claim gives, each with its label
C4_Buckets ==
    << <<KwSales, "sales_analysis">>, <<KwPerformance, "performance_analysis">>,
       <<KwTrend, "trend_analysis">>, <<KwComparison, "comparison_analysis">>,
       <<KwRanking, "ranking_analysis">>, <<KwCustomer, "customer_analysis">>,
       <<KwProduct, "product_analysis">>, <<KwGeographic, "geographic_analysis">>,
       <<KwFinancial, "financial_analysis">> >>

C5_Expected(q) ==
    CASE q = "Analyze revenue trends over time" -> "trend_analysis"
      [] q = "What were our top sales products last quarter?" -> "sales_analysis"
      [] q = "Show me customer retention rates" -> "customer_analysis"
      [] q = "Give me a general business overview" -> "general_analysis"
      [] OTHER -> "unstated"

\* C5: "Analyze revenue trends over time" is classified as trend_analysis,
\* "What were our top sales products last quarter?" as sales_analysis, "Show me
\* customer retention rates" as customer_analysis and "Give me a general business
\* overview" as general_analysis.
C5_TestExpectations ==
    (ret.set /\ call.fn = "classify_intent"
       /\ C5_Expected(call.user_query) # "unstated")
    => ret.value = C5_Expected(call.user_query)

\* C6: the context build_context returns lists at most 5 relevant datasets,
\* each with a relevance score above 0.3 and at most 1.0, in non-increasing
\* order of score, and no dataset left out of the list scores more than the
\* last one listed.
C6_TopFive ==
    BuildContextReturns =>
        LET rel == result.context.relevant_datasets
            score(i) == heap[rel[i]].relevance_score
            scored(d) == calculate_dataset_relevance(heap[d], loc.search_terms,
                                                     result.context.intent)
        IN  /\ result.set
            /\ Len(rel) <= 5
            /\ \A i \in 1..Len(rel) :
                  /\ heap[rel[i]].has_relevance_score
                  /\ score(i) = scored(rel[i])
                  /\ score(i) > 3
                  /\ score(i) <= 10
            /\ \A i \in 1..Len(rel) : \A j \in 1..Len(rel) :
                  i < j => score(i) >= score(j)
            /\ \A d \in Range(loc.relevant) \ Range(rel) :
                  /\ rel # <<>>
                  /\ scored(d) <= score(Len(rel))

\* C6 witness: a returned context lists 5 datasets of different scores out of
\* more candidates
C6_Witness ==
    /\ BuildContextReturns
    /\ Len(result.context.relevant_datasets) = 5
    /\ Len(loc.relevant) > 5
    /\ heap[result.context.relevant_datasets[1]].relevance_score
          > heap[result.context.relevant_datasets[5]].relevance_score

C7_Weight(pairs, i, name) ==
    IF i <= Len(pairs) /\ IsSubstring(pairs[i][1], name) THEN pairs[i][2] ELSE 0

\* C7: the relevance score is min(1.0, 0.3 for every position of the
\* search-term list whose term is a substring of the lower-cased dataset name,
\* plus the weights of the intent's keywords that are substrings of that name,
\* plus 0.2 if a search term is a substring of the lower-cased workspace name);
\* "Sales_Warehouse_2024" with the terms sales and revenue, intent
\* sales_analysis and a workspace matching no term scores 0.8.
C7_RelevanceFormula ==
    (ret.set /\ call.fn = "calculate_dataset_relevance") =>
        LET name == Lower(call.name)
            terms == call.search_terms
            hits == Cardinality({ i \in 1..Len(terms) : IsSubstring(terms[i], name) })
            pairs == intent_weights(call.intent)
            weights == C7_Weight(pairs, 1, name) + C7_Weight(pairs, 2, name)
                       + C7_Weight(pairs, 3, name)
            bonus == IF \E i \in 1..Len(terms) :
                            IsSubstring(terms[i], Lower(call.workspace_name))
                     THEN 2 ELSE 0
        IN  /\ Len(pairs) <= 3
            /\ ret.value = Min(10, 3 * hits + weights + bonus)
            /\ ( /\ call.name = "Sales_Warehouse_2024"
                 /\ terms = <<"sales", "revenue">>
                 /\ call.intent = "sales_analysis"
                 /\ bonus = 0 ) => ret.value = 8

\* C7 witness: the call on "Sales_Warehouse_2024" of the claim has returned 0.8
C7_Witness ==
    /\ ret.set
    /\ call.fn = "calculate_dataset_relevance"
    /\ call.name = "Sales_Warehouse_2024"
    /\ call.search_terms = <<"sales", "revenue">>
    /\ call.intent = "sales_analysis"
    /\ call.workspace_name = "Finance"
    /\ ret.value = 8

\* C8: between calls, after n build_context calls the history holds min(n, 10)
\* entries, the questions of the min(n, 10) most recent calls in call order;
\* after 15 calls it holds 10.
C8_RollingHistory ==
    Idle =>
        LET n == Len(calls)
            m == Min(n, 10)
        IN  /\ Len(query_history) = m
            /\ \A i \in 1..m : query_history[i].query = calls[n - m + i]
            /\ n = 15 => Len(query_history) = 10

\* C8 witness: 15 calls have returned, the last with its catalog call failed,
\* and the 10 entries kept are not all the same question
C8_Witness ==
    /\ pc = "done"
    /\ Len(calls) = 15
    /\ Len(query_history) = 10
    /\ \E i \in 1..Len(wire) : wire[i].to = "bi" /\ wire[i].answered = "failed"
    /\ query_history[1].query # query_history[10].query

CatalogCallFailed ==
    \E i \in 1..Len(wire) : wire[i].to = "bi" /\ wire[i].answered = "failed"

\* C9: when a catalog request of build_context failed, the returned context
\* lists no datasets and its performance hints contain "Limited Power BI context
\* due to connection issues".
C9_DegradedContext ==
    (BuildContextReturns /\ CatalogCallFailed) =>
        /\ result.context.relevant_datasets = <<>>
        /\ result.context.schema_info.tables = <<>>
        /\ "Limited Power BI context due to connection issues"
               \in Range(result.context.performance_hints)

PlanCallFailed ==
    \E i \in 1..Len(wire) : wire[i].op = "plan" /\ wire[i].answered = "failed"

\* C10: when the planning call to the language model failed, what
\* reasoning_analysis returned has a confidence between 0.3 and 0.4, a
\* non-empty analysis plan and an empty list of queries.
C10_FallbackPlan ==
    PlanCallFailed =>
        /\ loc.planned.confidence_score.type = "number"
        /\ loc.planned.confidence_score.num >= 300
        /\ loc.planned.confidence_score.num <= 400
        /\ loc.planned.analysis_plan # <<>>
        /\ loc.planned.dax_queries = JList(<<>>)

\* C10 witness: a request whose planning call failed by an HTTP error has
\* gone on with the plan reasoning_analysis returned
C10_Witness ==
    /\ PlanCallFailed
    /\ loc.planned.confidence_score = JNum(300)
    /\ loc.planned.user_intent = "Analyze: " \o user_query
    /\ pc = "http_query"


PlanCallAnswered ==
    \E i \in 1..Len(wire) : wire[i].op = "plan" /\ wire[i].answered # "pending"

\* C11: once the planning reply has been handled, the plan's confidence_score
\* is a number between 0 and 1 (0 and 1000 thousandths), whatever confidence
\* the reply carried, and so is the confidence of the AnalysisResult returned.
C11_ConfidenceInRange ==
    /\ PlanCallAnswered =>
          /\ thinking.confidence_score.type = "number"
          /\ thinking.confidence_score.num >= 0
          /\ thinking.confidence_score.num <= 1000
    /\ (AnalyzeReturns /\ result.set) =>
          (result.confidence >= 0 /\ result.confidence <= 1000)

\* C12: when the context has no relevant datasets, analyze_request returns
\* success = true with no data, the insight set handed to the formatting is
\* the canned "No data available for analysis" one, no query is sent to the BI
\* service and the insight-extraction endpoint is not called.
C12_NoDatasets ==
    (AnalyzeReturns /\ context.relevant_datasets = <<>>) =>
        /\ result.set
        /\ result.success = TRUE
        /\ result.data = <<>>
        /\ insights = NoDataInsights
        /\ \A i \in 1..Len(wire) : wire[i].op \notin {"query", "probe", "insights"}


FormatCallFailed ==
    \E i \in 1..Len(wire) : wire[i].op = "format" /\ wire[i].answered = "failed"

\* the text shows the first insight, the first recommendation and the summary
\* of the insight bundle, as far as the bundle has them
C20_Reflects(ins, text) ==
    /\ ins.insights # <<>> => IsSubstring(ins.insights[1], text)
    /\ ins.recommendations # <<>> => IsSubstring(ins.recommendations[1], text)
    /\ ins.summary # "" => IsSubstring(ins.summary, text)

\* C20: when the formatting call to the language model failed, the formatting
\* stage does not raise and the response is a non-empty text that shows the
\* insight list, the recommendation list and the summary of the insight bundle.
C20_FallbackFromInsights ==
    (AnalyzeReturns /\ FormatCallFailed) =>
        /\ ~stage_error.raised
        /\ result.response # ""
        /\ C20_Reflects(insights, result.response)


(***************************************************************************)
(* PowerBIClient called directly: get_workspaces, get_datasets and         *)
(* execute_dax_query, one call at a time, while the clock advances and the *)
(* token provider comes and goes.                                          *)
(***************************************************************************)
\* a method of the client returns `value` to its caller
client_return(s, value) ==
    [s EXCEPT !.pc = "done", !.result = [set |-> TRUE, value |-> value]]

GroupsRequest == [to |-> "bi", op |-> "groups", arg |-> ""]

\* get_workspaces(force_refresh) up to its HTTP request
get_workspaces_call(s, force_refresh) ==
    LET listed == get_workspaces_begin(s, force_refresh) IN
    IF listed.kind = "return"
    THEN client_return(s, listed.value)
    ELSE Send(s, "client_groups", GroupsRequest)

\* get_workspaces from the response to its return
get_workspaces_return(s, response) ==
    LET got == get_workspaces_end(s, response) IN client_return(got.s, got.value)

\* get_datasets(workspace_id, force_refresh) up to its first HTTP request: the
\* dataset listing, or before it the workspace listing that names the workspace
get_datasets_call(s, workspace_id, force_refresh) ==
    IF ~force_refresh /\ CacheFresh(s.dataset_cache[workspace_id], DatasetTTL)
    THEN client_return(s, s.dataset_cache[workspace_id].data)
    ELSE IF ~token_available
    THEN client_return(s, <<>>)
    ELSE IF workspace_id = "me"
    THEN Send([s EXCEPT !.loc.workspace_name = "My Workspace"],
              "client_datasets", DatasetsRequest(workspace_id))
    ELSE LET nested == get_workspaces_begin(s, FALSE) IN
         IF nested.kind = "return"
         THEN Send([s EXCEPT !.loc.workspace_name =
                                 workspace_name_of(nested.value, workspace_id)],
                   "client_datasets", DatasetsRequest(workspace_id))
         ELSE Send(s, "client_groups_nested", GroupsRequest)

\* get_datasets once its nested get_workspaces is answered: the dataset request
get_datasets_named(s, workspace_id, response) ==
    LET got == get_workspaces_end(s, response) IN
    Send([got.s EXCEPT !.loc.workspace_name =
                           workspace_name_of(got.value, workspace_id)],
         "client_datasets", DatasetsRequest(workspace_id))

\* get_datasets from the response of the dataset request to its return
get_datasets_return(s, workspace_id, response) ==
    LET got == get_datasets_end(s, workspace_id, s.loc.workspace_name, response)
    IN  client_return(got.s, got.value)

\* execute_dax_query up to its HTTP request
execute_dax_query_call(s, dataset_id, dax_query) ==
    IF ~token_available
    THEN client_return(s, no_token_result(dataset_id, dax_query))
    ELSE Send([s EXCEPT !.loc.query_start = now], "client_query",
              QueryRequest("query", dataset_id, dax_query))

\* execute_dax_query with no `except Exception`: an exception leaves the method
execute_dax_query_return_uncaught(s, c, response) ==
    IF response.kind = "exception" \/ (Is200(response) /\ c.context = "ai_context")
    THEN [s EXCEPT !.pc = "crashed"]
    ELSE client_return(s, execute_dax_query_end(c.dataset_id, c.dax_query, c.context,
                                                s.loc.query_start, response))

\* execute_dax_query from the response to its return; c holds the arguments
execute_dax_query_return(s, c, response) ==
    client_return(s, execute_dax_query_end(c.dataset_id, c.dax_query, c.context,
                                           s.loc.query_start, response))


ClientWorkspaceIds == {"w1", "w2"}
ClientContexts == {"none", "ai_context", "client_context"}

ClientQueryResponses ==
    QueryResponses \cup
    { Status(401, [results |-> "none", rows |-> <<>>, text |-> ""]),
      Status(403, [results |-> "none", rows |-> <<>>, text |-> ""]),
      Status(404, [results |-> "none", rows |-> <<>>, text |-> ""]),
      Status(500, [results |-> "none", rows |-> <<>>, text |-> "Internal Server Error"]) }

ClientTickDeltas == {200, 400, 86400}

MaxClientCalls == 2
MaxClientTicks == 2

NoResponse == [kind |-> "none", status |-> 0, body |-> <<>>]

\* what is noted of a call when it starts: the arguments, the clock, whether
\* the token provider yields a token, and the two caches
ClientCall(fn, arguments) ==
    [ fn |-> fn, arguments |-> arguments, at |-> now, token |-> token_available,
      workspace_cache |-> workspace_cache, dataset_cache |-> dataset_cache,
      response |-> NoResponse ]

ClientUnchanged == UNCHANGED <<now, service, token_available, nticks, ret>>

\* get_workspaces is called
GetWorkspacesCall ==
    /\ Idle
    /\ Len(calls) < MaxClientCalls
    /\ \E force_refresh \in BOOLEAN :
          /\ Install(get_workspaces_call(Frame("get_workspaces", ""), force_refresh))
          /\ call' = ClientCall("get_workspaces", [force_refresh |-> force_refresh])
    /\ calls' = Append(calls, "get_workspaces")
    /\ ClientUnchanged

\* get_datasets is called
GetDatasetsCall ==
    /\ Idle
    /\ Len(calls) < MaxClientCalls
    /\ \E workspace_id \in ClientWorkspaceIds, force_refresh \in BOOLEAN :
          /\ Install(get_datasets_call(Frame("get_datasets", ""), workspace_id,
                                       force_refresh))
          /\ call' = ClientCall("get_datasets",
                         [workspace_id |-> workspace_id, force_refresh |-> force_refresh])
    /\ calls' = Append(calls, "get_datasets")
    /\ ClientUnchanged

\* execute_dax_query is called
ExecuteDaxQueryCall ==
    /\ Idle
    /\ Len(calls) < MaxClientCalls
    /\ \E context_arg \in ClientContexts :
          /\ Install(execute_dax_query_call(Frame("execute_dax_query", ""),
                                            "d1", "EVALUATE Sales"))
          /\ call' = ClientCall("execute_dax_query",
                         [ dataset_id |-> "d1", dax_query |-> "EVALUATE Sales",
                           context |-> context_arg ])
    /\ calls' = Append(calls, "execute_dax_query")
    /\ ClientUnchanged

\* the workspace listing requested by get_workspaces is answered
ClientGroupsResponse ==
    /\ pc = "client_groups"
    /\ \E r \in GroupsResponses :
          /\ Install(get_workspaces_return(Answer(Cur, Is200(r)), r))
          /\ call' = [call EXCEPT !.response = r]
    /\ UNCHANGED <<now, service, token_available, calls, nticks, ret>>

\* the workspace listing requested inside get_datasets is answered
ClientNestedGroupsResponse ==
    /\ pc = "client_groups_nested"
    /\ \E r \in GroupsResponses :
          /\ Install(get_datasets_named(Answer(Cur, Is200(r)),
                                        call.arguments.workspace_id, r))
          /\ call' = [call EXCEPT !.response = r]
    /\ UNCHANGED <<now, service, token_available, calls, nticks, ret>>

\* the dataset listing requested by get_datasets is answered
ClientDatasetsResponse ==
    /\ pc = "client_datasets"
    /\ \E r \in DatasetsResponses(call.arguments.workspace_id) :
          /\ Install(get_datasets_return(Answer(Cur, Is200(r)),
                                         call.arguments.workspace_id, r))
          /\ call' = [call EXCEPT !.response = r]
    /\ UNCHANGED <<now, service, token_available, calls, nticks, ret>>

\* the query sent by execute_dax_query is answered
ClientQueryResponse ==
    /\ pc = "client_query"
    /\ \E r \in ClientQueryResponses :
          /\ Install(execute_dax_query_return(Answer(Cur, Is200(r)), call.arguments, r))
          /\ call' = [call EXCEPT !.response = r]
    /\ UNCHANGED <<now, service, token_available, calls, nticks, ret>>

\* time passes, by minutes or by a day
ClientTick ==
    /\ nticks < MaxClientTicks
    /\ \E d \in ClientTickDeltas : now' = now + d
    /\ nticks' = nticks + 1
    /\ UNCHANGED <<service, token_available, workspace_cache, dataset_cache, heap,
                   query_history, stats, pc, caller, user_query, start_time, context,
                   loc, thinking, results, insights, result, stage_error, wire,
                   calls, call, ret>>

InitClient ==
    /\ Constructed
    /\ service = CatalogFinance
    /\ token_available \in BOOLEAN
    /\ call = NoCall
    /\ ret = NoRet

NextClient ==
    \/ GetWorkspacesCall
    \/ GetDatasetsCall
    \/ ExecuteDaxQueryCall
    \/ ClientGroupsResponse
    \/ ClientNestedGroupsResponse
    \/ ClientDatasetsResponse
    \/ ClientQueryResponse
    \/ ClientTick
    \/ AuthChange

SpecClient == InitClient /\ [][NextClient]_vars


ClientReturns(fn) == pc = "done" /\ caller = fn /\ call.fn = fn

\* the entry the cache held when the call started is younger than ttl seconds
C13_Younger(entry, ttl) == entry.present /\ call.at - entry.timestamp < ttl

\* C13: with a token at hand, get_workspaces answers from its cache, sending
\* nothing, exactly when force_refresh is false and the cache holds an entry
\* less than 10 minutes old, and get_datasets does so per workspace with 5
\* minutes; an older entry (a day old or more too) is never served, and
\* force_refresh = true always fetches.
C13_CachePolicy ==
    /\ (ClientReturns("get_workspaces") /\ call.token) =>
          LET entry == call.workspace_cache IN
          /\ (wire = <<>>) <=>
                (~call.arguments.force_refresh /\ C13_Younger(entry, WorkspaceTTL))
          /\ wire = <<>> => result.value = entry.data
    /\ (ClientReturns("get_datasets") /\ call.token) =>
          LET entry == call.dataset_cache[call.arguments.workspace_id] IN
          /\ (wire = <<>>) <=>
                (~call.arguments.force_refresh /\ C13_Younger(entry, DatasetTTL))
          /\ wire = <<>> => result.value = entry.data

\* the call could not be answered: it needed the service and had no token, or
\* its own listing request was answered by an error
C14_Failed(op, entry) ==
    \/ /\ wire = <<>>
       /\ ~call.token
       /\ (call.arguments.force_refresh \/ ~entry.present)
    \/ /\ wire # <<>>
       /\ wire[Len(wire)].op = op
       /\ wire[Len(wire)].answered = "failed"

\* C14: a get_workspaces or get_datasets call that fails (no token, a non-200
\* status, an exception) returns an empty list, does not raise, and leaves the
\* cache of its listing as it was when the call started; a workspace listing
\* that fails inside get_datasets leaves the workspace cache as it was, and a
\* failing get_datasets changes the workspace cache only by a listing that
\* succeeded.
C14_FailureLeavesCache ==
    /\ pc # "crashed"
    /\ (ClientReturns("get_workspaces")
          /\ C14_Failed("groups", call.workspace_cache)) =>
          /\ result.set
          /\ result.value = <<>>
          /\ workspace_cache = call.workspace_cache
          /\ dataset_cache = call.dataset_cache
    /\ (ClientReturns("get_datasets")
          /\ C14_Failed("datasets", call.dataset_cache[call.arguments.workspace_id])) =>
          /\ result.set
          /\ result.value = <<>>
          /\ dataset_cache = call.dataset_cache
          /\ \/ workspace_cache = call.workspace_cache
             \/ /\ wire[1].op = "groups"
                /\ wire[1].answered = "ok"
                /\ workspace_cache.present
    /\ (call.fn = "get_datasets" /\ wire # <<>> /\ wire[1].op = "groups"
          /\ wire[1].answered = "failed") =>
          workspace_cache = call.workspace_cache

\* C14 witness: a forced get_workspaces whose request failed has returned, and
\* the listing cached before the call is still in the cache
C14_Witness ==
    /\ ClientReturns("get_workspaces")
    /\ wire # <<>>
    /\ wire[Len(wire)].answered = "failed"
    /\ result.value = <<>>
    /\ call.workspace_cache.present
    /\ call.workspace_cache.data # <<>>
    /\ workspace_cache = call.workspace_cache

\* C15: execute_dax_query never raises: every call returns a QueryResult, a
\* success with no error or a failure with an error text, whatever context was
\* passed and whatever the service answered; without a token it returns the
\* failure "No access token available" and sends nothing.
C15_QueryTotal ==
    /\ pc # "crashed"
    /\ ClientReturns("execute_dax_query") =>
          /\ result.set
          /\ result.value.success \in BOOLEAN
          /\ result.value.success => result.value.error = None
          /\ ~result.value.success => result.value.error \notin {None, ""}
          /\ ~call.token =>
                /\ result.value.success = FALSE
                /\ result.value.error = "No access token available"
                /\ wire = <<>>

\* C15 witness: a call given the context builder's context, whose request the
\* HTTP client answered by an exception, has returned a failure
C15_Witness ==
    /\ ClientReturns("execute_dax_query")
    /\ call.response.kind = "exception"
    /\ call.arguments.context = "ai_context"
    /\ result.value.success = FALSE
    /\ result.value.error = "Error executing query: timeout"

\* the words one of which names the category of a status code
C16_Category(status) ==
    CASE status = 400 -> <<"syntax">>
      [] status = 401 -> <<"unauthorized">>
      [] status = 403 -> <<"forbidden", "access denied">>
      [] status = 404 -> <<"not found">>
      [] OTHER        -> <<"failed", "error">>

\* C16: the error of the QueryResult returned for a non-200 answer names the
\* category of the status: bad syntax for 400, unauthorized for 401, forbidden
\* or access denied for 403, not found for 404, a generic error otherwise.
C16_StatusCategories ==
    (ClientReturns("execute_dax_query") /\ call.response.kind = "status"
        /\ call.response.status # 200) =>
        /\ result.value.success = FALSE
        /\ AnyIn(C16_Category(call.response.status), Lower(result.value.error))


(***************************************************************************)
(* The statistics of the reasoning engine over several requests in a row.  *)
(***************************************************************************)
\* get_statistics; success_rate is kept as the pair it is the quotient of
get_statistics(st) ==
    [ total_analyses |-> st.analysis_count,
      successful_analyses |-> st.success_count,
      success_rate |-> IF st.analysis_count > 0
                       THEN <<st.success_count, st.analysis_count>> ELSE <<0, 1>>,
      average_execution_time_ms |->
          IF st.analysis_count > 0
          THEN st.total_execution_time \div st.analysis_count ELSE 0,
      total_execution_time_ms |-> st.total_execution_time ]

\* reset_statistics
reset_statistics(st) ==
    [st EXCEPT !.analysis_count = 0, !.success_count = 0, !.total_execution_time = 0]

StatsQuestions == {"sales"}

MaxStatsCalls == 2
MaxStatsTicks == 2

\* analyze_request is called, one call after the other
StatsStart ==
    /\ Idle
    /\ Len(calls) < MaxStatsCalls
    /\ \E q \in StatsQuestions :
          /\ Install(build_context_begin(
                 [Frame("analyze_request", q) EXCEPT !.stats.analysis_count = @ + 1]))
          /\ calls' = Append(calls, q)
    /\ UNCHANGED <<now, service, token_available, nticks, call, ret>>

\* reset_statistics is called between two requests
ResetStatistics ==
    /\ Idle
    /\ stats' = reset_statistics(stats)
    /\ UNCHANGED <<now, service, token_available, workspace_cache, dataset_cache,
                   heap, query_history, pc, caller, user_query, start_time, context,
                   loc, thinking, results, insights, result, stage_error, wire,
                   calls, nticks, call, ret>>

\* time passes while requests are served
StatsTick ==
    /\ nticks < MaxStatsTicks
    /\ \E d \in TickDeltas : now' = now + d
    /\ nticks' = nticks + 1
    /\ UNCHANGED <<service, token_available, workspace_cache, dataset_cache, heap,
                   query_history, stats, pc, caller, user_query, start_time, context,
                   loc, thinking, results, insights, result, stage_error, wire,
                   calls, call, ret>>

InitStats ==
    /\ Constructed
    /\ service = CatalogEmpty
    /\ token_available = TRUE
    /\ call = NoCall
    /\ ret = NoRet

NextStats ==
    \/ StatsStart
    \/ GroupsResponse
    \/ PlanResponse
    \/ FormatResponse
    \/ ResetStatistics
    \/ StatsTick

SpecStats == InitStats /\ [][NextStats]_vars

\* C17: the statistics count the analyze_request calls since the last reset:
\* a call adds 1 to total_analyses when it starts; when it returns it adds 1
\* to successful_analyses if it returned success = true, and its elapsed time
\* (the execution_time_ms of its result) to total_execution_time_ms; any other
\* change of the statistics, a reset, sets the three to zero.
C17_Statistics ==
    [][ LET before == get_statistics(stats)
            after == get_statistics(stats')
            starts == Len(calls') = Len(calls) + 1
            returns == pc # "done" /\ pc' = "done"
        IN  /\ starts =>
                  /\ after.total_analyses = before.total_analyses + 1
                  /\ after.successful_analyses = before.successful_analyses
                  /\ after.total_execution_time_ms = before.total_execution_time_ms
            /\ returns =>
                  /\ after.total_analyses = before.total_analyses
                  /\ after.successful_analyses =
                        before.successful_analyses
                            + (IF result'.success THEN 1 ELSE 0)
                  /\ after.total_execution_time_ms =
                        before.total_execution_time_ms + result'.execution_time_ms
            /\ (~starts /\ ~returns /\ stats' # stats) =>
                  /\ after.total_analyses = 0
                  /\ after.successful_analyses = 0
                  /\ after.total_execution_time_ms = 0
      ]_vars


(***************************************************************************)
(* TeamsResponseFormatter.format_data_table                                *)
(* (modules/ai/response_formatter.py).  A row is a Python dict: the        *)
(* sequence of its <<key, value>> pairs in insertion order.                *)
(***************************************************************************)
PyText(s) == [type |-> "str", s |-> s, n |-> 0]
PyInt(n)  == [type |-> "int", s |-> "", n |-> n]
PyNone    == [type |-> "none", s |-> "", n |-> 0]

\* str(value)
str_of(value) ==
    CASE value.type = "str" -> value.s
      [] value.type = "int" -> IntToStr(value.n)
      [] OTHER              -> "None"

\* list(row.keys())
Keys(row) == [i \in 1..Len(row) |-> row[i][1]]

\* row.get(key, default)
RowGet(row, key, default) ==
    IF \E i \in 1..Len(row) : row[i][1] = key
    THEN row[CHOOSE i \in 1..Len(row) : row[i][1] = key][2]
    ELSE default

\* seq[:k], for any integer k
SliceTo(seq, k) ==
    IF k >= 0 THEN SubSeq(seq, 1, Min(k, Len(seq)))
    ELSE SubSeq(seq, 1, IF Len(seq) + k > 0 THEN Len(seq) + k ELSE 0)

\* sep.join(parts)
RECURSIVE JoinWith(_, _)
JoinWith(sep, parts) ==
    IF parts = <<>> THEN ""
    ELSE IF Len(parts) = 1 THEN Head(parts)
    ELSE Head(parts) \o sep \o JoinWith(sep, Tail(parts))

\* the line that opens and closes the table: three backquotes in the source,
\* written here with the apostrophe
CodeFence == "'''"

TableColumns == 4
TableCellMax == 15
TableCellKeep == 12

\* the cell text cut as soon as it is longer than the part kept of it
truncate_cell_early(value) ==
    IF Len(value) > TableCellKeep THEN SubSeq(value, 1, TableCellKeep) \o "..." ELSE value

\* the truncation of a long cell in format_data_table
truncate_cell(value) ==
    IF Len(value) > TableCellMax THEN SubSeq(value, 1, TableCellKeep) \o "..." ELSE value

\* format_data_table
format_data_table(data, max_rows) ==
    IF data = <<>> THEN "No data available."
    ELSE
    LET display_data == SliceTo(data, max_rows)
        all_headers == IF display_data # <<>> THEN Keys(display_data[1]) ELSE <<>>
    IN
    IF all_headers = <<>> THEN "No data structure available."
    ELSE
    LET headers == IF Len(all_headers) > TableColumns
                   THEN SliceTo(all_headers, TableColumns) ELSE all_headers
        row_line(row) ==
            JoinWith(" | ", [j \in 1..Len(headers) |->
                                truncate_cell(str_of(RowGet(row, headers[j], PyText(""))))])
        table_parts ==
            << CodeFence, JoinWith(" | ", headers),
               JoinWith(" | ", [j \in 1..Len(headers) |-> "---"]) >>
            \o [i \in 1..Len(display_data) |-> row_line(display_data[i])]
            \o << CodeFence >>
            \o (IF Len(data) > max_rows
                THEN << "*Showing " \o IntToStr(max_rows) \o " of "
                        \o IntToStr(Len(data)) \o " total records*" >>
                ELSE <<>>)
    IN  JoinWith("\n", table_parts)

\* the rows the table is called on
TableRow(shape, i) ==
    CASE shape = "plain" ->
            << <<"id", PyInt(i)>>, <<"name", PyText("Product")>> >>
      [] shape = "wide" ->
            << <<"region", PyText("Northern Europe")>>,
               <<"customer", PyText("Contoso Limited.")>>,
               <<"amount", PyInt(0 - 1250 * i)>>,
               <<"note", PyNone>>,
               <<"hidden", PyText("fifth column")>> >>
      [] shape = "ragged" ->
            IF i = 1 THEN << <<"id", PyInt(i)>>, <<"name", PyText("A")>> >>
            ELSE << <<"name", PyText("International Sales")>>, <<"extra", PyInt(i)>> >>
      [] OTHER -> <<>>

TableShapes == {"plain", "wide", "ragged", "empty"}
TableLengths == {0, 1, 2, 3, 11, 15}
TableMaxRows == {0 - 1, 0, 1, 2, 10}

\* format_data_table is called and returns
FormatTableCall ==
    /\ call.fn = "format_data_table"
    /\ ~ret.set
    /\ ret' = Returned(format_data_table(call.data, call.max_rows))
    /\ UNCHANGED <<now, service, token_available, workspace_cache, dataset_cache,
                   heap, query_history, stats, pc, caller, user_query, start_time,
                   context, loc, thinking, results, insights, result, stage_error,
                   wire, calls, nticks, call>>

InitTable ==
    /\ Constructed
    /\ service = CatalogEmpty
    /\ token_available = TRUE
    /\ call \in { [ fn |-> "format_data_table",
                    data |-> [i \in 1..n |-> TableRow(shape, i)],
                    max_rows |-> k ] :
                  shape \in TableShapes, n \in TableLengths, k \in TableMaxRows }
    /\ ret = NoRet

SpecTable == InitTable /\ [][FormatTableCall]_vars


(***************************************************************************)
(* TeamsResponseFormatter.format_analysis_result, with the default         *)
(* FormattingOptions.  Pictographs are written as their emoji_map key in   *)
(* brackets, the bullet of the suggestions as a hyphen.                    *)
(***************************************************************************)
IsLetter(c) ==
    \E i \in 1..Len(LowerCase) : CharAt(LowerCase, i) = c \/ CharAt(UpperCase, i) = c

\* str.upper() on one character
UpperChar(c) ==
    IF \E i \in 1..Len(LowerCase) : CharAt(LowerCase, i) = c
    THEN CharAt(UpperCase, CHOOSE i \in 1..Len(LowerCase) : CharAt(LowerCase, i) = c)
    ELSE c

\* str.title(): a letter that follows a letter is lowered, any other is raised
RECURSIVE TitleFrom(_, _)
TitleFrom(s, i) ==
    IF i > Len(s) THEN ""
    ELSE (IF i > 1 /\ IsLetter(CharAt(s, i - 1))
          THEN LowerChar(CharAt(s, i)) ELSE UpperChar(CharAt(s, i)))
         \o TitleFrom(s, i + 1)

\* str.replace(old, new) for a one-character old
RECURSIVE ReplaceFrom(_, _, _, _)
ReplaceFrom(s, old, new, i) ==
    IF i > Len(s) THEN ""
    ELSE (IF CharAt(s, i) = old THEN new ELSE CharAt(s, i))
         \o ReplaceFrom(s, old, new, i + 1)

\* str.split(c) for a one-character c
SplitChar(s, c) ==
    LET breaks == { i \in 1..Len(s) : CharAt(s, i) = c }
        break(k) == IF k = 0 THEN 0
                    ELSE IF k > Cardinality(breaks) THEN Len(s) + 1
                    ELSE CHOOSE p \in breaks :
                            Cardinality({ q \in breaks : q < p }) = k - 1
    IN  [k \in 1..(Cardinality(breaks) + 1) |->
            SubSeq(s, break(k - 1) + 1, break(k) - 1)]

\* the lines of a text
SplitLines(s) == SplitChar(s, "\n")

\* str.strip()
Strip(s) ==
    LET inked == { i \in 1..Len(s) : CharAt(s, i) \notin Whitespace } IN
    IF inked = {} THEN ""
    ELSE SubSeq(s, CHOOSE i \in inked : \A j \in inked : i <= j,
                   CHOOSE i \in inked : \A j \in inked : j <= i)

\* k in s.lower(), for a lower-case k
InLower(k, s) ==
    \E i \in 0..(Len(s) - Len(k)) : Lower(SubSeq(s, i + 1, i + Len(k))) = k

\* f"{n:03d}"
Pad3(n) == (IF n < 10 THEN "00" ELSE IF n < 100 THEN "0" ELSE "") \o NatToStr(n)
\* f"{n:02d}"
Pad2(n) == (IF n < 10 THEN "0" ELSE "") \o NatToStr(n)

\* f"{n:,}" for n >= 0
RECURSIVE Commas(_)
Commas(n) ==
    IF n < 1000 THEN NatToStr(n)
    ELSE Commas(n \div 1000) \o "," \o Pad3(n % 1000)

\* the lengths of the months of a year that is not a leap year
MonthDays == <<31, 28, 31, 30, 31, 30, 31, 31, 30, 31, 30, 31>>

\* the month and the day of the month of day number d (from 0) of such a year
RECURSIVE MonthDay(_, _)
MonthDay(d, month) ==
    IF d < MonthDays[month] THEN <<month, d + 1>>
    ELSE MonthDay(d - MonthDays[month], month + 1)

\* datetime.now().strftime("%Y-%m-%d %H:%M"); the clock reads 0 at
\* 2025-01-01 00:00:00 and the years it reaches are not leap years
strftime_minute(t) ==
    LET day == t \div 86400
        md == MonthDay(day % 365, 1)
        second == t % 86400
    IN  NatToStr(2025 + day \div 365) \o "-" \o Pad2(md[1]) \o "-" \o Pad2(md[2])
        \o " " \o Pad2(second \div 3600) \o ":" \o Pad2((second % 3600) \div 60)

\* str.split(sep), used to read a text back into its lines and cells
RECURSIVE SplitOnFrom(_, _, _, _, _)
SplitOnFrom(s, sep, i, cur, acc) ==
    IF i > Len(s) THEN Append(acc, cur)
    ELSE IF i + Len(sep) - 1 <= Len(s) /\ SubSeq(s, i, i + Len(sep) - 1) = sep
    THEN SplitOnFrom(s, sep, i + Len(sep), "", Append(acc, cur))
    ELSE SplitOnFrom(s, sep, i + 1, cur \o CharAt(s, i), acc)

SplitOn(s, sep) == SplitOnFrom(s, sep, 1, "", <<>>)

TableReturns == call.fn = "format_data_table" /\ ret.set

\* what the claim says of the text returned for call.data and call.max_rows
C18_AsClaimed ==
    LET data == call.data
        max_rows == call.max_rows
        lines == SplitLines(ret.value)
        is_table == lines[1] = CodeFence
        closing == IF is_table
                   THEN CHOOSE j \in 2..Len(lines) :
                           /\ lines[j] = CodeFence
                           /\ \A k \in 2..(j - 1) : lines[k] # CodeFence
                   ELSE 0
        header == IF is_table THEN SplitOn(lines[2], " | ") ELSE <<>>
        rows == IF is_table THEN SubSeq(lines, 4, closing - 1) ELSE <<>>
        note == IF is_table THEN SubSeq(lines, closing + 1, Len(lines)) ELSE <<>>
    IN  /\ Len(rows) = Min(Len(data), max_rows)
        /\ Len(header) <= 4
        /\ data # <<>> =>
              header = SubSeq(Keys(data[1]), 1, Min(4, Len(data[1])))
        /\ \A i \in 1..Len(rows) :
              LET cells == SplitOn(rows[i], " | ") IN
              /\ Len(cells) = Len(header)
              /\ \A j \in 1..Len(header) :
                    LET text == str_of(RowGet(data[i], header[j], PyText(""))) IN
                    cells[j] = IF Len(text) > 15
                               THEN SubSeq(text, 1, 12) \o "..." ELSE text
        /\ (note # <<>>) <=> (Len(data) > max_rows)
        /\ note # <<>> =>
              /\ Len(note) = 1
              /\ IsSubstring("Showing " \o IntToStr(max_rows) \o " of "
                                 \o IntToStr(Len(data)), note[1])
        /\ (Len(data) = 15 /\ max_rows = 10) =>
              (Len(rows) = 10 /\ IsSubstring("Showing 10 of 15", ret.value))

format_intent_title(user_intent) ==
    LET title == TitleFrom(ReplaceFrom(user_intent, "_", " ", 1), 1) IN
    CASE title = "Sales Analysis"     -> "Sales Performance Analysis"
      [] title = "Customer Analysis"  -> "Customer Insights Analysis"
      [] title = "Product Analysis"   -> "Product Performance Analysis"
      [] title = "Financial Analysis" -> "Financial Performance Analysis"
      [] title = "Trend Analysis"     -> "Trend & Growth Analysis"
      [] title = "General Analysis"   -> "Business Intelligence Analysis"
      [] OTHER                        -> title

\* the sections of format_analysis_result: each is the list of the section, if
\* there is one.  _create_header_section (include_confidence is off)
create_header_section(r) ==
    << "[analysis] **" \o format_intent_title(r.thinking.user_intent) \o "**" >>

\* _create_executive_summary (an AnalysisResult has no key_finding)
create_executive_summary(r) ==
    IF r.data = <<>> THEN <<>>
    ELSE << Join(<< "**[insight] Executive Summary**",
                    "Analyzed **" \o Commas(Len(r.data)) \o " records** from **"
                        \o IntToStr(Len(r.datasets_used)) \o " dataset(s)** in "
                        \o Commas(r.execution_time_ms) \o "ms." >>) >>

\* _create_insights_section
create_insights_section(r) ==
    IF r.response = None \/ r.response = "" \/ Strip(r.response) = "" THEN <<>>
    ELSE IF IsSubstring("*", r.response) THEN << r.response >>
    ELSE << Join(<< "**[insight] Key Insights**", "", r.response >>) >>

\* _extract_recommendations
extract_recommendations(r) ==
    LET sentences == SplitChar(r.response, ".")
        chosen == SelectSeq(sentences,
                      LAMBDA sentence :
                          /\ InLower("recommend", sentence) \/ InLower("suggest", sentence)
                          /\ Len(Strip(sentence)) > 10)
        found == IF InLower("recommend", r.response)
                 THEN [i \in 1..Len(chosen) |-> Strip(chosen[i])] ELSE <<>>
        intent == Lower(r.thinking.user_intent)
        recommendations ==
            IF found # <<>> THEN found
            ELSE IF IsSubstring("sales", intent)
            THEN << "Focus on top-performing products and regions",
                    "Investigate declining trends for improvement opportunities" >>
            ELSE IF IsSubstring("customer", intent)
            THEN << "Enhance engagement with high-value customer segments",
                    "Develop retention strategies for at-risk customers" >>
            ELSE << "Continue monitoring key performance indicators",
                    "Schedule regular analysis updates" >>
    IN  FirstN(recommendations, 3)

\* _create_recommendations_section
create_recommendations_section(r) ==
    LET recommendations == FirstN(extract_recommendations(r), 3) IN
    IF recommendations = <<>> THEN <<>>
    ELSE << Join(<< "**[recommendation] Recommendations**" >>
                 \o [i \in 1..Len(recommendations) |->
                        IntToStr(i) \o ". " \o recommendations[i]]) >>

\* _create_data_summary_section
create_data_summary_section(r) ==
    IF r.datasets_used = <<>> THEN <<>>
    ELSE << Join(<< "**[clipboard] Data Summary**",
                    "**Sources**: " \o JoinWith(", ", r.datasets_used) >>
                 \o (IF r.data # <<>>
                     THEN << "**Records**: " \o Commas(Len(r.data)) >> ELSE <<>>)
                 \o (IF r.execution_time_ms > 0
                     THEN << "**Response Time**: " \o Commas(r.execution_time_ms) \o "ms" >>
                     ELSE <<>>)) >>

\* _create_footer_section, called when the clock reads t
create_footer_section(r, t) ==
    << Join((IF r.warnings # <<>>
             THEN << "[warning] *" \o JoinWith("; ", r.warnings) \o "*" >> ELSE <<>>)
            \o << "*Analysis completed at " \o strftime_minute(t) \o "*" >>) >>

\* _format_error_response
format_error_response(r) ==
    Join(<< "[error] **Analysis Error**", "",
            "I encountered an issue while analyzing your Power BI data.", "" >>
         \o (IF r.error_message # None /\ r.error_message # ""
             THEN << "**Error Details**: " \o r.error_message, "" >> ELSE <<>>)
         \o << "[insight] **Suggestions**:",
               "- Check your Power BI data connections",
               "- Verify dataset permissions",
               "- Try rephrasing your question",
               "- Contact your administrator if the issue persists",
               "", "I'm ready to help once the issue is resolved!" >>)

\* TeamsResponseFormatter._create_fallback_response
formatter_fallback_response(r) ==
    Join(<< "[analysis] **Power BI Analysis**", "",
            "Analysis completed successfully.", "" >>
         \o (IF r.data # <<>>
             THEN << "Retrieved " \o Commas(Len(r.data))
                     \o " records from your Power BI data." >> ELSE <<>>)
         \o (IF r.datasets_used # <<>>
             THEN << "Data sources: " \o JoinWith(", ", r.datasets_used) >> ELSE <<>>))

\* format_analysis_result, called when the clock reads t.  A user_intent or a
\* response that is None raises AttributeError inside the try block.
format_analysis_result(r, t) ==
    IF ~r.success THEN format_error_response(r)
    ELSE IF r.thinking.user_intent = None \/ r.response = None
    THEN formatter_fallback_response(r)
    ELSE JoinWith("\n\n",
             create_header_section(r) \o create_executive_summary(r)
             \o create_insights_section(r) \o create_recommendations_section(r)
             \o create_data_summary_section(r) \o create_footer_section(r, t))


\* the AnalysisResult objects the formatter is called on
SampleResult(intent, response, data, execution_time_ms, datasets_used, warnings) ==
    [ set |-> TRUE,
      thinking |-> ThinkingProcess(intent, <<"Query the totals">>, "One dataset",
                                   <<"Look at totals">>, JList(<<>>), JNum(700)),
      response |-> response, query_results |-> <<>>, data |-> data,
      confidence |-> 700, execution_time_ms |-> execution_time_ms,
      datasets_used |-> datasets_used, success |-> TRUE, error_message |-> None,
      warnings |-> warnings ]

FormatSamples ==
    { SampleResult("sales_analysis", "Formatted answer", <<"row 1", "row 2">>, 1250,
                   <<"Sales_2024">>, <<>>),
      SampleResult("Review sales",
                   "**Summary**: Sales rose. We recommend a review of pricing. I suggest it",
                   <<>>, 0, <<>>, <<"Partial data", "Stale cache">>),
      SampleResult("customer churn", "   ", [i \in 1..1200 |-> "row"], 600000,
                   <<"CRM", "Orders">>, <<>>),
      SampleResult("trend_analysis", None, <<"row 1">>, 40, <<"Sales_2024">>, <<>>),
      SampleResult(None, "Formatted answer", <<>>, 40, <<>>, <<>>),
      [ SampleResult("", create_error_response("boom"), <<>>, 15, <<>>, <<>>)
          EXCEPT !.success = FALSE, !.error_message = "boom", !.confidence = 0 ],
      [ SampleResult("", "", <<>>, 0, <<>>, <<>>) EXCEPT !.success = FALSE ] }

FormatTickDeltas == {30, 600, 86400}

MaxFormatCalls == 2
MaxFormatTicks == 2

\* format_analysis_result is called on the same object again and returns; the
\* texts returned so far are kept in order
FormatResultCall ==
    /\ call.fn = "format_analysis_result"
    /\ Len(calls) < MaxFormatCalls
    /\ ret' = Returned((IF ret.set THEN ret.value ELSE <<>>)
                       \o << format_analysis_result(call.analysis_result, now) >>)
    /\ calls' = Append(calls, "format_analysis_result")
    /\ UNCHANGED <<now, service, token_available, workspace_cache, dataset_cache,
                   heap, query_history, stats, pc, caller, user_query, start_time,
                   context, loc, thinking, results, insights, result, stage_error,
                   wire, nticks, call>>

\* time passes between two calls of the formatter
FormatTick ==
    /\ nticks < MaxFormatTicks
    /\ \E d \in FormatTickDeltas : now' = now + d
    /\ nticks' = nticks + 1
    /\ UNCHANGED <<service, token_available, workspace_cache, dataset_cache, heap,
                   query_history, stats, pc, caller, user_query, start_time, context,
                   loc, thinking, results, insights, result, stage_error, wire,
                   calls, call, ret>>

InitFormat ==
    /\ Constructed
    /\ service = CatalogEmpty
    /\ token_available = TRUE
    /\ call \in { [fn |-> "format_analysis_result", analysis_result |-> r] :
                  r \in FormatSamples }
    /\ ret = NoRet

NextFormat ==
    \/ FormatResultCall
    \/ FormatTick

SpecFormat == InitFormat /\ [][NextFormat]_vars

\* C19: two calls of format_analysis_result on the same unchanged
\* AnalysisResult, at any two moments, return the same text.
C19_Idempotent ==
    (call.fn = "format_analysis_result" /\ ret.set /\ Len(ret.value) = 2) =>
        ret.value[1] = ret.value[2]

(***************************************************************************)
(* analyze_request on a catalog whose workspace lists two datasets, the    *)
(* less relevant one first, for questions of three intents.                *)
(***************************************************************************)
CatalogRanked ==
    [ workspaces |-> << Workspace("w1", "Orders Hub", "Active") >>,
      datasets |-> [w \in WsIds |->
          IF w = "w1"
          THEN << Dataset("d1", "Orders"), Dataset("d2", "Sales_Orders_2024") >>
          ELSE <<>>] ]

PlanQuestions ==
    { "What were our top sales products last quarter?", "orders growth",
      "top orders", "" }

MaxPlanRequests == 1

\* analyze_request is called
PlanAnalyzeStart ==
    /\ Idle
    /\ Len(calls) < MaxPlanRequests
    /\ \E q \in PlanQuestions :
          /\ Install(build_context_begin(
                 [Frame("analyze_request", q) EXCEPT !.stats.analysis_count = @ + 1]))
          /\ calls' = Append(calls, q)
    /\ UNCHANGED <<now, service, token_available, nticks, call, ret>>

InitPlan ==
    /\ Constructed
    /\ service = CatalogRanked
    /\ token_available \in BOOLEAN
    /\ call = NoCall
    /\ ret = NoRet

NextPlan ==
    \/ PlanAnalyzeStart
    \/ GroupsResponse
    \/ DatasetsResponse
    \/ PlanResponse
    \/ QueryResponse
    \/ ProbeResponse
    \/ InsightsResponse
    \/ FormatResponse
    \/ Tick
    \/ AuthChange

SpecPlan == InitPlan /\ [][NextPlan]_vars

\* stage 3 has been entered with a list of planned queries and a relevant dataset
StageThreeEntered ==
    /\ caller = "analyze_request"
    /\ PlanCallAnswered
    /\ thinking.dax_queries.type = "list"
    /\ context.relevant_datasets # <<>>

StageThreeLeft == pc \in {"http_probe", "http_insights", "http_format", "done"}

\* the positions of the planned queries for which an HTTP request left
SentPositions ==
    { i \in 1..Min(Len(results.query_results), Len(thinking.dax_queries.items)) :
          results.query_results[i].error # "No access token available" }
    \cup (IF pc = "http_query" THEN {loc.q_index} ELSE {})

QueriesOnWire == SelectSeq(wire, LAMBDA w : w.op = "query")

\* C21: with a relevant dataset, execute_dax_query is called once per planned
\* query, in plan order and with the id of the first dataset of the context:
\* the QueryResults collected are one per planned query in plan order, and the
\* query requests sent to the BI service are those of the planned queries, each
\* once, in plan order, all addressed to that first dataset.
C21_PlanOrder ==
    StageThreeEntered =>
        LET queries == thinking.dax_queries.items
            first == heap[context.relevant_datasets[1]]
            collected == results.query_results
        IN  /\ pc = "http_query" => Len(collected) = loc.q_index - 1
            /\ (StageThreeLeft /\ queries # <<>>) => Len(collected) = Len(queries)
            /\ \A i \in 1..Min(Len(collected), Len(queries)) :
                  collected[i].query_hash = QueryHash(first.id, queries[i])
            /\ Len(QueriesOnWire) = Cardinality(SentPositions)
            /\ \A k \in 1..Len(QueriesOnWire) :
                  \E i \in SentPositions :
                      /\ Cardinality({j \in SentPositions : j < i}) = k - 1
                      /\ QueriesOnWire[k].arg = QueryHash(first.id, queries[i])

\* C21 witness: a request with two relevant datasets, the first of them not the
\* first listed, has sent both queries of a two-query plan and has returned
C21_Witness ==
    /\ AnalyzeReturns
    /\ StageThreeEntered
    /\ Len(context.relevant_datasets) = 2
    /\ heap[context.relevant_datasets[1]].id = "d2"
    /\ Len(thinking.dax_queries.items) = 2
    /\ thinking.dax_queries.items[1] # thinking.dax_queries.items[2]
    /\ Len(QueriesOnWire) = 2
    /\ result.success = TRUE

\* a reply to a query request with status 200 and a non-empty result table
TableReply(response) ==
    Is200(response) /\ response.body.results = "table" /\ response.body.rows # <<>>

\* the rows of the table replies among `replies`, in order
RECURSIVE TableRows(_)
TableRows(replies) ==
    IF replies = <<>> THEN <<>>
    ELSE (IF TableReply(Head(replies)) THEN Head(replies).body.rows ELSE <<>>)
         \o TableRows(Tail(replies))

\* C22: every planned query that the BI service answered with status 200 and a
\* non-empty table has a QueryResult with success = true, and once the planned
\* queries are through, the data collected (the data of the AnalysisResult) is
\* the rows of those replies, concatenated in plan order.
C22_SuccessfulRows ==
    StageThreeEntered =>
        /\ \A k \in 1..Len(loc.replies) :
              TableReply(loc.replies[k]) =>
                  \E i \in SentPositions :
                      /\ Cardinality({j \in SentPositions : j < i}) = k - 1
                      /\ results.query_results[i].success = TRUE
        /\ (StageThreeLeft /\ thinking.dax_queries.items # <<>>) =>
              results.data = TableRows(loc.replies)
        /\ (AnalyzeReturns /\ result.success /\ thinking.dax_queries.items # <<>>) =>
              result.data = TableRows(loc.replies)

\* the rows the planned queries returned, counted over their QueryResults
RECURSIVE PlannedRowCount(_, _)
PlannedRowCount(collected, n) ==
    IF n = 0 \/ collected = <<>> THEN 0
    ELSE Head(collected).row_count + PlannedRowCount(Tail(collected), n - 1)

\* how many times _execute_fallback_analysis has called execute_dax_query
ProbeCount ==
    Cardinality({ i \in 1..Len(results.execution_summary) :
                     results.execution_summary[i] \in
                         { "Fallback analysis: Basic dataset info retrieved",
                           "Fallback analysis also failed" } })
    + (IF pc = "http_probe" THEN 1 ELSE 0)

ProbesOnWire == SelectSeq(wire, LAMBDA w : w.op = "probe")

\* C23: with a relevant dataset, once the planned queries are through, the probe
\* query has been executed exactly once, against the first dataset of the
\* context, if the planned queries returned no rows at all, and not at all if
\* they returned at least one row.
C23_ProbeOnZeroRows ==
    (StageThreeEntered /\ StageThreeLeft) =>
        LET first == heap[context.relevant_datasets[1]]
            planned == Len(thinking.dax_queries.items)
        IN  IF PlannedRowCount(results.query_results, planned) = 0
            THEN /\ ProbeCount = 1
                 /\ Len(ProbesOnWire) <= 1
                 /\ \A k \in 1..Len(ProbesOnWire) :
                       ProbesOnWire[k].arg = QueryHash(first.id, basic_query(first))
            ELSE /\ ProbeCount = 0
                 /\ ProbesOnWire = <<>>

\* the canned set of _generate_insights' except block
canned_insights(data, relevant_datasets) ==
    InsightDict({"insights", "recommendations", "summary"},
                << "Retrieved " \o IntToStr(Len(data)) \o " records from Power BI",
                   "Data sourced from " \o IntToStr(Len(relevant_datasets))
                       \o " dataset(s)" >>,
                << "Review the data for patterns and trends",
                   "Consider additional filters or time periods" >>,
                "Basic analysis completed with " \o IntToStr(Len(data)) \o " data points",
                "", JMissing)

InsightsCallFailed ==
    \E i \in 1..Len(wire) : wire[i].op = "insights" /\ wire[i].answered = "failed"

\* C24: when rows were retrieved and the insight call to the language model
\* failed, the insight set handed to the formatting stage is the canned set
\* that reports the number of rows and the number of datasets, and carries no
\* "error" key.
C24_CannedInsights ==
    (caller = "analyze_request" /\ InsightsCallFailed /\ results.data # <<>>) =>
        /\ insights = canned_insights(results.data, context.relevant_datasets)
        /\ "error" \notin insights.keys

\* _enhance_thinking_with_context has returned (it raises on a confidence that
\* is not a number, and the plan is then replaced by the reasoning-error plan)
EnhancementReturned ==
    /\ caller = "analyze_request"
    /\ PlanCallAnswered
    /\ loc.planned.confidence_score.type = "number"

\* C25: after the enhancement of the plan reasoning_analysis returned: a plan
\* that came back without queries, in a context with a relevant dataset, holds
\* exactly one query, which names the first relevant dataset and is the top-N
\* query for sales_analysis, the by-date summary for trend_analysis and the
\* row count for every other intent; a plan that came back with queries keeps
\* them unchanged; with no relevant dataset a plan without queries stays so.
C25_SynthesizedQuery ==
    EnhancementReturned =>
        LET came == loc.planned.dax_queries
            rel == context.relevant_datasets
        IN  IF Truthy(came) THEN thinking.dax_queries = came
            ELSE IF rel = <<>> THEN thinking.dax_queries = came /\ ~Truthy(thinking.dax_queries)
            ELSE /\ thinking.dax_queries.type = "list"
                 /\ Len(thinking.dax_queries.items) = 1
                 /\ LET q == thinking.dax_queries.items[1]
                        name == heap[rel[1]].name
                    IN  /\ IsSubstring("SUMMARIZE(" \o name \o ",", q)
                        /\ IsSubstring("TOPN(10,", q) <=> context.intent = "sales_analysis"
                        /\ IsSubstring("SUM([Sales Amount])", q)
                               <=> context.intent = "sales_analysis"
                        /\ IsSubstring("[Date]", q) <=> context.intent = "trend_analysis"
                        /\ IsSubstring("COUNTROWS(" \o name \o ")", q)
                               <=> context.intent \notin {"sales_analysis", "trend_analysis"}

\* C25 witness: a trend question with two relevant datasets, whose plan came
\* back without queries, goes to stage 3 with the one by-date query
C25_Witness ==
    /\ EnhancementReturned
    /\ ~Truthy(loc.planned.dax_queries)
    /\ context.intent = "trend_analysis"
    /\ Len(context.relevant_datasets) = 2
    /\ thinking.dax_queries =
           JList(<<"EVALUATE SUMMARIZE(Orders, [Date], \"Value\", SUM([Amount]))">>)
    /\ pc = "http_query"

\* the pipeline stage that sends a request: context 1, plan 2, execute 3,
\* insights 4, format 5
StageOf(op) ==
    CASE op \in {"groups", "datasets"} -> 1
      [] op = "plan"                    -> 2
      [] op \in {"query", "probe"}      -> 3
      [] op = "insights"                -> 4
      [] OTHER                          -> 5

OnWire(op) == { i \in 1..Len(wire) : wire[i].op = op }

\* C26: within one analyze_request the requests leave in the order of the
\* stages context, plan, execute, insights, format; the language model is
\* called at most once for the plan, once for the insights and once for the
\* formatting; no more query requests leave than the plan has queries, each
\* planned query at most once, and at most one probe; and after a failed
\* language-model call no second request of the same kind follows: a failed
\* planning call leaves the fallback plan, a failed formatting call is followed
\* by the return of analyze_request.
C26_NoRetry ==
    caller = "analyze_request" =>
        /\ \A i \in 1..Len(wire), j \in 1..Len(wire) :
              i < j => StageOf(wire[i].op) <= StageOf(wire[j].op)
        /\ Cardinality(OnWire("plan")) <= 1
        /\ Cardinality(OnWire("insights")) <= 1
        /\ Cardinality(OnWire("format")) <= 1
        /\ Cardinality(OnWire("probe")) <= 1
        /\ OnWire("query") # {} =>
              /\ thinking.dax_queries.type = "list"
              /\ Cardinality(OnWire("query")) <= Len(thinking.dax_queries.items)
              /\ \A i \in OnWire("query") :
                    Cardinality({ j \in OnWire("query") : wire[j].arg = wire[i].arg })
                    <= Cardinality({ k \in 1..Len(thinking.dax_queries.items) :
                           \E d \in 1..Len(heap) :
                               wire[i].arg = QueryHash(heap[d].id,
                                                       thinking.dax_queries.items[k]) })
        /\ \A i \in 1..Len(wire) :
              (wire[i].to = "lm" /\ wire[i].answered = "failed") =>
                  /\ \A j \in (i + 1)..Len(wire) : wire[j].op # wire[i].op
                  /\ wire[i].op = "plan" =>
                        loc.planned = create_fallback_thinking(user_query)
                  /\ wire[i].op = "insights" => "error" \in insights.keys
                  /\ wire[i].op = "format" => pc = "done"

\* C26 witness: a request whose planning call, planned query and formatting
\* call all failed has returned, each of them sent once
C26_Witness ==
    /\ AnalyzeReturns
    /\ PlanCallFailed
    /\ FormatCallFailed
    /\ \E i \in OnWire("query") : wire[i].answered = "failed"
    /\ Cardinality(OnWire("query")) = 1
    /\ result.success = TRUE

(***************************************************************************)
(* Two build_context coroutines on one context builder and one client.     *)
(* The first coroutine lives in the request variables; the second one's    *)
(* frame (its position and locals) is kept in call.frame.  Both act on the *)
(* same caches, the same DatasetInfo objects and the same query history.   *)
(* A coroutine gives way to the other only while its HTTP request is in    *)
(* flight; _classify_intent, _build_business_context and the cache hits    *)
(* are awaited but never suspend.                                          *)
(***************************************************************************)
\* the position and the locals of one coroutine
FrameOf(s) ==
    [ pc |-> s.pc, caller |-> s.caller, user_query |-> s.user_query,
      start_time |-> s.start_time, context |-> s.context, loc |-> s.loc,
      thinking |-> s.thinking, results |-> s.results, insights |-> s.insights,
      result |-> s.result, stage_error |-> s.stage_error, wire |-> s.wire ]

IdleFrame ==
    [ pc |-> "idle", caller |-> "none", user_query |-> "", start_time |-> 0,
      context |-> NewContext("", "general_analysis"), loc |-> NewLoc,
      thinking |-> NoThinking, results |-> NoResults, insights |-> NoInsights,
      result |-> NoResult, stage_error |-> NoError, wire |-> <<>> ]

Other == call.frame

\* the state the second coroutine acts on: its own frame, the shared objects
OtherCur ==
    [Cur EXCEPT !.pc = Other.pc, !.caller = Other.caller,
                !.user_query = Other.user_query, !.start_time = Other.start_time,
                !.context = Other.context, !.loc = Other.loc,
                !.thinking = Other.thinking, !.results = Other.results,
                !.insights = Other.insights, !.result = Other.result,
                !.stage_error = Other.stage_error, !.wire = Other.wire]

\* the state the second coroutine leaves when it is suspended again or returns
InstallOther(s) ==
    \E v \in {s} :
        /\ call' = [call EXCEPT !.frame = FrameOf(v)]
        /\ workspace_cache' = v.workspace_cache
        /\ dataset_cache' = v.dataset_cache
        /\ heap' = v.heap
        /\ query_history' = v.query_history
        /\ stats' = v.stats
        /\ UNCHANGED <<pc, caller, user_query, start_time, context, loc, thinking,
                       results, insights, result, stage_error, wire>>

OtherIdle == Other.pc \in {"idle", "done"}

\* a fresh frame of the second coroutine
OtherFrame(entry, q) ==
    [OtherCur EXCEPT !.caller = entry, !.user_query = q, !.start_time = now,
                     !.thinking = NoThinking, !.results = NoResults,
                     !.insights = NoInsights, !.result = NoResult,
                     !.stage_error = NoError, !.wire = <<>>]

CatalogShared ==
    [ workspaces |-> << Workspace("w1", "Team A", "Active"),
                        Workspace("w3", "Team B", "Active") >>,
      datasets |-> [w \in WsIds |->
          IF w = "w1" THEN << Dataset("d1", "Sales_Orders_2024") >>
          ELSE IF w = "w3" THEN << Dataset("d2", "Orders") >>
          ELSE <<>>] ]

SharedQuestions == { "What were our top sales products last quarter?", "orders orders" }

MaxSharedCalls == 2

\* build_context is called while no call of the first coroutine is running
SharedStart ==
    /\ Idle
    /\ Len(calls) < MaxSharedCalls
    /\ \E q \in SharedQuestions :
          /\ Install(build_context_begin(Frame("build_context", q)))
          /\ calls' = Append(calls, q)
    /\ UNCHANGED <<now, service, token_available, nticks, call, ret>>

\* build_context is called while no call of the second coroutine is running
OtherSharedStart ==
    /\ OtherIdle
    /\ Len(calls) < MaxSharedCalls
    /\ \E q \in SharedQuestions :
          /\ InstallOther(build_context_begin(OtherFrame("build_context", q)))
          /\ calls' = Append(calls, q)
    /\ UNCHANGED <<now, service, token_available, nticks, ret>>

\* the second coroutine's workspace listing is answered
OtherGroupsResponse ==
    /\ Other.pc = "http_groups"
    /\ \E r \in GroupsResponses :
          InstallOther(build_powerbi_context_resume(Answer(OtherCur, Is200(r)), r))
    /\ UNCHANGED <<now, service, token_available, calls, nticks, ret>>

\* the workspace listing requested inside the second coroutine's get_datasets
OtherNestedGroupsResponse ==
    /\ Other.pc = "http_groups_nested"
    /\ \E r \in GroupsResponses :
          InstallOther(get_datasets_resume(Answer(OtherCur, Is200(r)), r))
    /\ UNCHANGED <<now, service, token_available, calls, nticks, ret>>

\* a dataset listing of the second coroutine is answered
OtherDatasetsResponse ==
    /\ Other.pc = "http_datasets"
    /\ \E r \in DatasetsResponses(
                    Other.context.available_workspaces[Other.loc.ws_index].id) :
          InstallOther(find_relevant_datasets_resume(Answer(OtherCur, Is200(r)), r))
    /\ UNCHANGED <<now, service, token_available, calls, nticks, ret>>

InitShared ==
    /\ Constructed
    /\ service = CatalogShared
    /\ token_available = TRUE
    /\ call = [fn |-> "build_context", frame |-> IdleFrame]
    /\ ret = NoRet

NextShared ==
    \/ SharedStart
    \/ OtherSharedStart
    \/ GroupsResponse
    \/ NestedGroupsResponse
    \/ DatasetsResponse
    \/ OtherGroupsResponse
    \/ OtherNestedGroupsResponse
    \/ OtherDatasetsResponse
    \/ Tick

SpecShared == InitShared /\ [][NextShared]_vars

(***************************************************************************)
(* Many build_context calls on the two coroutines, each call with a        *)
(* question of its own, on an empty catalog.                               *)
(***************************************************************************)
MaxSharedHistoryCalls == 12

\* the question of the next call: its number among the calls made
NextQuestion == "q" \o IntToStr(Len(calls) + 1)

SharedHistoryStart ==
    /\ Idle
    /\ Len(calls) < MaxSharedHistoryCalls
    /\ Install(build_context_begin(Frame("build_context", NextQuestion)))
    /\ calls' = Append(calls, NextQuestion)
    /\ UNCHANGED <<now, service, token_available, nticks, call, ret>>

OtherSharedHistoryStart ==
    /\ OtherIdle
    /\ Len(calls) < MaxSharedHistoryCalls
    /\ InstallOther(build_context_begin(OtherFrame("build_context", NextQuestion)))
    /\ calls' = Append(calls, NextQuestion)
    /\ UNCHANGED <<now, service, token_available, nticks, ret>>

InitSharedHistory ==
    /\ Constructed
    /\ service = CatalogEmpty
    /\ token_available = TRUE
    /\ call = [fn |-> "build_context", frame |-> IdleFrame]
    /\ ret = NoRet

NextSharedHistory ==
    \/ SharedHistoryStart
    \/ OtherSharedHistoryStart
    \/ GroupsResponse
    \/ OtherGroupsResponse

SpecSharedHistory == InitSharedHistory /\ [][NextSharedHistory]_vars

\* the calls that have not returned yet
InFlight ==
    (IF pc \in {"idle", "done"} THEN {} ELSE {user_query})
    \cup (IF Other.pc \in {"idle", "done"} THEN {} ELSE {Other.user_query})

\* the history holds one entry per returned call, at most 10, no call twice
C27_HistoryState ==
    /\ Len(query_history) <= 10
    /\ Len(query_history) = Min(10, Len(calls) - Cardinality(InFlight))
    /\ \A i \in 1..Len(query_history) :
          /\ query_history[i].query \in Range(calls) \ InFlight
          /\ \A j \in 1..Len(query_history) :
                query_history[i].query = query_history[j].query => i = j

\* the calls that have returned
ReturnedCalls == Range(calls) \ InFlight

\* the history changes exactly in the steps in which a call returns, and such
\* a step appends that call's entry and truncates to the last 10 at once
C27_HistoryStep ==
    IF ReturnedCalls' = ReturnedCalls
    THEN query_history' = query_history
    ELSE \E q \in ReturnedCalls' \ ReturnedCalls :
            /\ ReturnedCalls' = ReturnedCalls \cup {q}
            /\ query_history' =
                   LastN(Append(query_history,
                                [query |-> q, intent |-> "general_analysis",
                                 timestamp |-> now]), 10)

\* C27: with build_context calls interleaving on one context builder, the
\* history never holds more than 10 entries, every returned call has appended
\* exactly one entry (none lost, none twice), and each change of the history is
\* the append and the truncation of one call together.
C27_SharedHistory == []C27_HistoryState /\ [][C27_HistoryStep]_vars

\* the position of a question among the calls made
CallNumber(q) == CHOOSE n \in 1..Len(calls) : calls[n] = q

\* C27 witness: after more than 10 calls the history is full, both coroutines
\* have returned, and two calls returned in the opposite order of their starts
C27_Witness ==
    /\ Len(calls) > 10
    /\ Len(query_history) = 10
    /\ pc = "done" /\ Other.pc = "done"
    /\ \E i \in 1..9 :
          CallNumber(query_history[i].query) > CallNumber(query_history[i + 1].query)

\* the workspaces get_workspaces keeps of a complete listing
ActiveWorkspaces == SelectSeq(service.workspaces, LAMBDA ws : ws.state = "Active")

\* the cached listing `data` is the complete dataset listing of workspace w
CompleteListing(data, w, hp) ==
    /\ Len(data) = Len(service.datasets[w])
    /\ \A i \in 1..Len(data) :
          /\ hp[data[i]].id = service.datasets[w][i].id
          /\ hp[data[i]].name = service.datasets[w][i].name
          /\ hp[data[i]].workspace_id = w

\* every cache entry holds a complete listing
C28_CacheState ==
    /\ workspace_cache.present =>
          (workspace_cache.data = ActiveWorkspaces /\ workspace_cache.timestamp <= now)
    /\ \A w \in WsIds :
          dataset_cache[w].present =>
              /\ CompleteListing(dataset_cache[w].data, w, heap)
              /\ dataset_cache[w].timestamp <= now

\* a step that changes a cache is the end of one fetch: it stores that fetch's
\* complete listing together with the time of that step, under one key
C28_CacheStep ==
    /\ workspace_cache' # workspace_cache =>
          /\ workspace_cache' = Entry(ActiveWorkspaces, now)
          /\ dataset_cache' = dataset_cache
    /\ dataset_cache' # dataset_cache =>
          \E w \in WsIds :
              /\ \A v \in WsIds \ {w} : dataset_cache'[v] = dataset_cache[v]
              /\ dataset_cache'[w].present
              /\ dataset_cache'[w].timestamp = now
              /\ CompleteListing(dataset_cache'[w].data, w, heap')
              /\ \A i \in 1..Len(dataset_cache'[w].data) :
                    dataset_cache'[w].data[i] > Len(heap)

\* C28: with two callers refreshing the same cache keys concurrently, every
\* cache entry at every time pairs a complete listing with the time at which
\* the fetch that produced it stored it: each store replaces the entry of one
\* key by the listing and the time of one fetch, the last store staying.
C28_NeverTorn == []C28_CacheState /\ [][C28_CacheStep]_vars

FetchedOk(log, op, arg) ==
    \E i \in 1..Len(log) : log[i].op = op /\ log[i].arg = arg /\ log[i].answered = "ok"

\* C28 witness: the two coroutines have each fetched the workspace listing and
\* the dataset listing of workspace w1 at the same clock time, so that neither
\* fetch saw the other's entry, and both have stored their listing
C28_Witness ==
    /\ nticks = 0
    /\ FetchedOk(wire, "groups", "") /\ FetchedOk(Other.wire, "groups", "")
    /\ FetchedOk(wire, "datasets", "w1") /\ FetchedOk(Other.wire, "datasets", "w1")
    /\ dataset_cache["w1"].present
    /\ Len(heap) >= 2

\* the score the question of context ctx gives the dataset object obj
OwnScore(ctx, obj) ==
    calculate_dataset_relevance(obj,
        intent_keywords(ctx.intent) \o Split(Lower(ctx.query)), ctx.intent)

\* the datasets of a returned context carry the scores its own question gives
\* them and are ranked by those scores
OwnRanking(ctx, hp) ==
    LET rel == ctx.relevant_datasets IN
    /\ \A i \in 1..Len(rel) : RelevanceAttr(hp[rel[i]]) = OwnScore(ctx, hp[rel[i]])
    /\ \A i \in 1..Len(rel), j \in 1..Len(rel) :
          i < j => OwnScore(ctx, hp[rel[i]]) >= OwnScore(ctx, hp[rel[j]])

\* C30: the relevant_datasets of every context build_context has returned are
\* ranked by, and carry, the relevance scores computed for that context's own
\* question, whatever other build_context calls did to the same cached dataset
\* descriptors meanwhile or afterwards.
C30_OwnScores ==
    /\ (pc = "done" /\ caller = "build_context" /\ result.set) =>
          OwnRanking(result.context, heap)
    /\ (Other.pc = "done" /\ Other.caller = "build_context" /\ Other.result.set) =>
          OwnRanking(Other.result.context, heap)

(***************************************************************************)
(* reset_statistics called at any time, also while an analyze_request is   *)
(* suspended at one of its awaits.                                         *)
(***************************************************************************)
\* reset_statistics is called while a request is suspended
ResetDuringRequest ==
    /\ ~Idle
    /\ stats' = reset_statistics(stats)
    /\ UNCHANGED <<now, service, token_available, workspace_cache, dataset_cache,
                   heap, query_history, pc, caller, user_query, start_time, context,
                   loc, thinking, results, insights, result, stage_error, wire,
                   calls, nticks, call, ret>>

NextStatsReset ==
    \/ StatsStart
    \/ GroupsResponse
    \/ PlanResponse
    \/ FormatResponse
    \/ ResetStatistics
    \/ ResetDuringRequest
    \/ StatsTick

SpecStatsReset == InitStats /\ [][NextStatsReset]_vars

\* C29: in every reachable state of the engine, also after a reset_statistics
\* that ran while an analyze_request was suspended, get_statistics reports
\* successful_analyses <= total_analyses and a success_rate between 0 and 1.
C29_StatisticsBounds ==
    LET reported == get_statistics(stats) IN
    /\ reported.successful_analyses <= reported.total_analyses
    /\ reported.success_rate[1] >= 0
    /\ reported.success_rate[1] <= reported.success_rate[2]

==========================================================================
